---------------------------- MODULE Spec2Model ----------------------------
(***************************************************************************)
(* Harvard Apparatus Elite 11 syringe pump driver (Protocol11) as a state  *)
(* machine: flowchem/devices/Harvard_Apparatus/HA_elite11.py.              *)
(*                                                                         *)
(* Text is a sequence of one-character strings, so that slicing, strip(),  *)
(* int() and the substring tests of the driver are computed, not assumed.  *)
(***************************************************************************)
EXTENDS Integers, Sequences, FiniteSets, TLC

VARIABLES
    sess,   \* the Elite11 objects: address, _withdraw_enabled, ...
    dev,    \* the status of each pump on the daisy chain
    link,   \* whether the serial port still works
    rx,     \* the serial input buffer of the shared PumpIO: lines not yet read
    wq,     \* the write executor of the AioSerial: submitted, unwritten commands
    task,   \* the asyncio tasks: operation, position, current cycle; of a
            \* cycle: the chunks read (raw), the lines kept (resp), each with
            \* the task whose command it answers (by); the commands written
            \* in the operation (sent; by wait_until_idle: since it slept)
    nops,   \* operations started so far
    io_instances,   \* Elite11._io_instances: the PumpIO objects of all sessions
    pump_io,        \* the pump_io attribute of each Elite11 object
    syringe         \* the syringe diameter each pump is set to, in mm

vars == << sess, dev, link, rx, wq, task, nops, io_instances, pump_io, syringe >>

----------------------------------------------------------------------------
(* Bounds of the model *)

\* operations started in a run of concurrent callers
MaxOps == 2

\* operations started in a run of one caller
MaxSeqOps == 3

----------------------------------------------------------------------------
(* Python values *)

\* None, as a value no address takes (addresses are compared with integers)
None == -1

Ok(v) == [ok |-> TRUE, val |-> v, exc |-> "", msg |-> ""]

Raise(e, m) == [ok |-> FALSE, val |-> << >>, exc |-> e, msg |-> m]

Range(s) == { s[i] : i \in DOMAIN s }

Min(a, b) == IF a < b THEN a ELSE b


----------------------------------------------------------------------------
(* Python str operations on text *)

Digit == << "0", "1", "2", "3", "4", "5", "6", "7", "8", "9" >>

IsDigit(c) == \E i \in 1..10 : Digit[i] = c

DigitVal(c) == (CHOOSE i \in 1..10 : Digit[i] = c) - 1

Whitespace == { " ", "\t", "\n", "\r" }

\* s[a:b] with 0 <= a, and b clipped to the length
Slice(s, a, b) == SubSeq(s, a + 1, Min(b, Len(s)))

\* s[a:]
SliceFrom(s, a) == SubSeq(s, a + 1, Len(s))

RECURSIVE lstrip(_)
lstrip(s) ==
    IF s # << >> /\ Head(s) \in Whitespace THEN lstrip(Tail(s)) ELSE s

RECURSIVE rstrip(_)
rstrip(s) ==
    IF s # << >> /\ s[Len(s)] \in Whitespace
    THEN rstrip(SubSeq(s, 1, Len(s) - 1))
    ELSE s

strip(s) == rstrip(lstrip(s))

startswith(s, p) == Len(p) <= Len(s) /\ SubSeq(s, 1, Len(p)) = p

\* p in s
contains(s, p) ==
    \E i \in 0..(Len(s) - Len(p)) : SubSeq(s, i + 1, i + Len(p)) = p

RECURSIVE DigitsValue(_)
DigitsValue(s) ==
    IF s = << >> THEN 0
    ELSE 10 * DigitsValue(SubSeq(s, 1, Len(s) - 1)) + DigitVal(s[Len(s)])

\* int(s): surrounding whitespace and one sign are accepted, then digits only
int(s) ==
    LET t == strip(s)
        signed == t # << >> /\ Head(t) \in { "+", "-" }
        d == IF signed THEN Tail(t) ELSE t
    IN  IF d # << >> /\ \A i \in DOMAIN d : IsDigit(d[i])
        THEN Ok(IF signed /\ Head(t) = "-" THEN 0 - DigitsValue(d) ELSE DigitsValue(d))
        ELSE Raise("ValueError", "int")

\* str(n) of an integer
RECURSIVE str(_)
str(n) ==
    IF n < 0 THEN << "-" >> \o str(0 - n)
    ELSE IF n < 10 THEN << Digit[n + 1] >>
    ELSE str(n \div 10) \o << Digit[(n % 10) + 1] >>

----------------------------------------------------------------------------
(* Texts of the protocol *)

TxtCommandError ==
    << "C", "o", "m", "m", "a", "n", "d", " ", "e", "r", "r", "o", "r" >>

TxtUnknownCommand ==
    << "U", "n", "k", "n", "o", "w", "n", " ", "c", "o", "m", "m", "a", "n", "d" >>

TxtArgumentError ==
    << "A", "r", "g", "u", "m", "e", "n", "t", " ", "e", "r", "r", "o", "r" >>

TxtOutOfRange ==
    << "O", "u", "t", " ", "o", "f", " ", "r", "a", "n", "g", "e" >>

TxtPumpType ==
    << "P", "u", "m", "p", " ", "t", "y", "p", "e", " ", " " >>

TxtPumpTypeString ==
    << "P", "u", "m", "p", " ", "t", "y", "p", "e", " ", "s", "t", "r", "i", "n", "g" >>

TxtDirection ==
    << "D", "i", "r", "e", "c", "t", "i", "o", "n" >>

TxtWithdraw ==
    << "w", "i", "t", "h", "d", "r", "a", "w" >>

----------------------------------------------------------------------------
(* Protocol11CommandTemplate, Protocol11Command, Elite11Commands *)

Template(c, n, a) ==
    [command_string |-> c, reply_lines |-> n, requires_argument |-> a]

EMPTY_MESSAGE == Template(" ", 0, FALSE)

GET_VERSION == Template("VER", 1, FALSE)

RUN == Template("run", 0, FALSE)

REVERSE_RUN == Template("rrun", 0, FALSE)

INFUSE == Template("irun", 0, FALSE)

WITHDRAW == Template("wrun", 0, FALSE)

STOP == Template("stp", 0, FALSE)

SET_DIAMETER == Template("diameter", 1, TRUE)

METRICS == Template("metrics", 20, FALSE)

GET_INFUSE_RATE == Template("irate", 1, FALSE)

GET_INFUSE_RATE_LIMITS == Template("irate lim", 1, FALSE)

SET_INFUSE_RATE == Template("irate", 1, TRUE)

GET_WITHDRAW_RATE == Template("wrate", 1, FALSE)

SET_WITHDRAW_RATE == Template("wrate", 1, TRUE)

WITHDRAWN_VOLUME == Template("wvolume", 1, FALSE)

CLEAR_WITHDRAWN_VOLUME == Template("cwvolume", 0, FALSE)

SET_SYRINGE_VOLUME == Template("svolume", 1, TRUE)

CLEAR_INFUSED_VOLUME == Template("civolume", 0, FALSE)

CLEAR_INFUSED_WITHDRAWN_VOLUME == Template("cvolume", 0, FALSE)

CLEAR_TARGET_VOLUME == Template("ctvolume", 0, FALSE)

NoCommand ==
    [command_string |-> "", reply_lines |-> 0, requires_argument |-> FALSE,
     target_pump_address |-> None, command_argument |-> << >>]

\* a template that binds whatever argument it is given
to_pump_unchecked(template, address, argument) ==
    Ok([command_string |-> template.command_string,
        reply_lines |-> template.reply_lines,
        requires_argument |-> template.requires_argument,
        target_pump_address |-> address,
        command_argument |-> argument])

\* Protocol11CommandTemplate.to_pump
to_pump(template, address, argument) ==
    IF template.requires_argument /\ argument = << >>
    THEN Raise("DeviceError", "without an argument")
    ELSE IF ~template.requires_argument /\ argument # << >>
    THEN Raise("DeviceError", "Cannot provide an argument")
    ELSE Ok([command_string |-> template.command_string,
             reply_lines |-> template.reply_lines,
             requires_argument |-> template.requires_argument,
             target_pump_address |-> address,
             command_argument |-> argument])

\* a command that compiles with any address
compile_any_address(command) ==
    IF command.target_pump_address = None
    THEN Raise("TypeError", "'<=' not supported between int and NoneType")
    ELSE Ok(str(command.target_pump_address)
            \o << command.command_string, " " >>
            \o command.command_argument
            \o << "\r", "\n" >>)

\* Protocol11Command.compile: the address digits as characters, then the
\* command string, a space, the argument and CRLF as pieces of the line
compile(command) ==
    IF command.target_pump_address = None
    THEN Raise("TypeError", "'<=' not supported between int and NoneType")
    ELSE IF ~(0 <= command.target_pump_address /\ command.target_pump_address < 99)
    THEN Raise("AssertionError", "address")
    ELSE Ok(str(command.target_pump_address)
            \o << command.command_string, " " >>
            \o command.command_argument
            \o << "\r", "\n" >>)

----------------------------------------------------------------------------
(* PumpStatus and the parsing of replies (PumpIO) *)

PumpStatusValue ==
    [IDLE |-> ":", INFUSING |-> ">", WITHDRAWING |-> "<",
     TARGET_REACHED |-> "T", STALLED |-> "*"]

PumpStatusNames == DOMAIN PumpStatusValue

\* a status table that takes every unknown value for IDLE
PumpStatus_lenient(v) ==
    IF \E n \in PumpStatusNames : << PumpStatusValue[n] >> = v
    THEN Ok(CHOOSE n \in PumpStatusNames : << PumpStatusValue[n] >> = v)
    ELSE Ok("IDLE")

\* PumpStatus(value): the member with that value, ValueError if there is none
PumpStatus(v) ==
    IF \E n \in PumpStatusNames : << PumpStatusValue[n] >> = v
    THEN Ok(CHOOSE n \in PumpStatusNames : << PumpStatusValue[n] >> = v)
    ELSE Raise("ValueError", "not a valid PumpStatus")

\* a parser that takes every prompt for one character
parse_response_line_short_prompt(line) ==
    IF ~(Len(line) >= 3) THEN Raise("AssertionError", "len(line) >= 3")
    ELSE LET pump_address == int(Slice(line, 0, 2))
             status == PumpStatus(Slice(line, 2, 3))
         IN  IF ~pump_address.ok THEN pump_address
             ELSE IF ~status.ok THEN status
             ELSE Ok(<< pump_address.val, status.val, SliceFrom(line, 3) >>)

\* PumpIO.parse_response_line
parse_response_line(line) ==
    IF ~(Len(line) >= 3) THEN Raise("AssertionError", "len(line) >= 3")
    ELSE LET pump_address == int(Slice(line, 0, 2))
             status == PumpStatus(Slice(line, 2, 3))
         IN  IF ~pump_address.ok THEN pump_address
             ELSE IF ~status.ok THEN status
             ELSE IF status.val = "TARGET_REACHED"
             THEN Ok(<< pump_address.val, status.val, SliceFrom(line, 4) >>)
             ELSE Ok(<< pump_address.val, status.val, SliceFrom(line, 3) >>)

\* PumpIO.parse_response: the three columns of the parsed lines
parse_response(response) ==
    LET parsed_lines == [i \in DOMAIN response |-> parse_response_line(response[i])]
        bad == { i \in DOMAIN response : ~parsed_lines[i].ok }
    IN  IF bad # {}
        THEN parsed_lines[CHOOSE i \in bad : \A j \in bad : i <= j]
        ELSE Ok(<< [i \in DOMAIN response |-> parsed_lines[i].val[1]],
                   [i \in DOMAIN response |-> parsed_lines[i].val[2]],
                   [i \in DOMAIN response |-> parsed_lines[i].val[3]] >>)

\* a classification that does not know the out of range marker
check_for_errors_three_markers(last_response_line, command_sent) ==
    IF contains(last_response_line, TxtCommandError)
    THEN Raise("DeviceError", "invalid")
    ELSE IF contains(last_response_line, TxtUnknownCommand)
    THEN Raise("DeviceError", "unknown")
    ELSE IF contains(last_response_line, TxtArgumentError)
    THEN Raise("DeviceError", "invalid argument")
    ELSE Ok(<< >>)

\* a classification that reports an unknown command as an invalid one
check_for_errors_one_kind(last_response_line, command_sent) ==
    IF contains(last_response_line, TxtCommandError)
       \/ contains(last_response_line, TxtUnknownCommand)
    THEN Raise("DeviceError", "invalid")
    ELSE IF contains(last_response_line, TxtArgumentError)
    THEN Raise("DeviceError", "invalid argument")
    ELSE IF contains(last_response_line, TxtOutOfRange)
    THEN Raise("DeviceError", "argument out of range")
    ELSE Ok(<< >>)

\* PumpIO.check_for_errors
check_for_errors(last_response_line, command_sent) ==
    IF contains(last_response_line, TxtCommandError)
    THEN Raise("DeviceError", "invalid")
    ELSE IF contains(last_response_line, TxtUnknownCommand)
    THEN Raise("DeviceError", "unknown")
    ELSE IF contains(last_response_line, TxtArgumentError)
    THEN Raise("DeviceError", "invalid argument")
    ELSE IF contains(last_response_line, TxtOutOfRange)
    THEN Raise("DeviceError", "argument out of range")
    ELSE Ok(<< >>)

\* a driver whose address assertion accepts every reply
all_unchecked(flags) == TRUE

\* all(...) of the address assertion
all(flags) == \A i \in DOMAIN flags : flags[i]

\* a driver that classifies the last line before it looks for a stall
write_and_read_reply_classify_first(response, command, return_parsed) ==
    IF response = << >>
    THEN Raise("InvalidConfiguration", "No response received from pump")
    ELSE LET parsed == parse_response(response)
         IN  IF ~parsed.ok THEN parsed
             ELSE LET pump_address == parsed.val[1]
                      return_status == parsed.val[2]
                      parsed_response == parsed.val[3]
                      errors == check_for_errors(response[Len(response)], command)
                  IN  IF ~all([i \in DOMAIN pump_address |->
                                 pump_address[i] = command.target_pump_address])
                      THEN Raise("AssertionError", "address")
                      ELSE IF ~errors.ok THEN errors
                      ELSE IF "STALLED" \in Range(return_status)
                      THEN Raise("DeviceError", "Pump stalled")
                      ELSE Ok(IF return_parsed THEN parsed_response ELSE response)

\* PumpIO.write_and_read_reply, from the end of the reads on
write_and_read_reply(response, command, return_parsed) ==
    IF response = << >>
    THEN Raise("InvalidConfiguration", "No response received from pump")
    ELSE LET parsed == parse_response(response)
         IN  IF ~parsed.ok THEN parsed
             ELSE LET pump_address == parsed.val[1]
                      return_status == parsed.val[2]
                      parsed_response == parsed.val[3]
                      errors == check_for_errors(response[Len(response)], command)
                  IN  IF ~all([i \in DOMAIN pump_address |->
                                 pump_address[i] = command.target_pump_address])
                      THEN Raise("AssertionError", "address")
                      ELSE IF "STALLED" \in Range(return_status)
                      THEN Raise("DeviceError", "Pump stalled")
                      ELSE IF ~errors.ok THEN errors
                      ELSE Ok(IF return_parsed THEN parsed_response ELSE response)

----------------------------------------------------------------------------
(* The pumps on the serial line.  The driver only sees them through the     *)
(* lines they send; what they send follows the driver's own description of  *)
(* the protocol (prompt XXY, leading newline, one prompt line at the end).   *)

\* addresses of the pumps wired on the daisy chain
Pumps == { 0, 1 }

\* the pumps that cannot withdraw ("Direction  Infuse" in their metrics)
InfuseOnlyPumps == { 0 }

Moving == { "INFUSING", "WITHDRAWING" }

MetricPumpType ==
    << "P", "u", "m", "p", " ", "t", "y", "p", "e", " ", " ", " ", " ", " ", " ", " ", " ", " ", " ", "P", "u", "m", "p", " ", "1", "1" >>

MetricPumpTypeString ==
    << "P", "u", "m", "p", " ", "t", "y", "p", "e", " ", "s", "t", "r", "i", "n", "g", " ", " ", " ", "1", "1", " ", "E", "L", "I", "T", "E" >>

MetricDirectionIW ==
    << "D", "i", "r", "e", "c", "t", "i", "o", "n", " ", " ", " ", " ", " ", " ", " ", " ", " ", " ", "I", "n", "f", "u", "s", "e", "/", "w", "i", "t", "h", "d", "r", "a", "w" >>

MetricDirectionI ==
    << "D", "i", "r", "e", "c", "t", "i", "o", "n", " ", " ", " ", " ", " ", " ", " ", " ", " ", " ", "I", "n", "f", "u", "s", "e" >>

MetricOther == << "G", "e", "a", "r", " ", "1", ":", "1" >>

\* line k of the 20 lines of the metrics reply (docstring of pump_info)
MetricsLine(p, k) ==
    IF k = 1 THEN MetricPumpType
    ELSE IF k = 2 THEN MetricPumpTypeString
    ELSE IF k = 17
    THEN (IF p \in InfuseOnlyPumps THEN MetricDirectionI ELSE MetricDirectionIW)
    ELSE MetricOther

\* the prompt characters of a status; target reached is the two-character T*
PromptChars(st) ==
    IF st = "TARGET_REACHED" THEN << "T", "*" >> ELSE << PumpStatusValue[st] >>

\* XX: the address in two digits
TwoDigits(p) == IF p < 10 THEN << "0" >> \o str(p) ELSE str(p)

Prompt(p, st) == TwoDigits(p) \o PromptChars(st)

\* the address a pump reads in a command line: its leading digits; a line
\* without address is for pump 0, the first of the chain
RECURSIVE LeadingDigits(_)
LeadingDigits(w) ==
    IF w # << >> /\ IsDigit(Head(w))
    THEN << Head(w) >> \o LeadingDigits(Tail(w))
    ELSE << >>

WireAddress(w) ==
    IF LeadingDigits(w) = << >> THEN 0 ELSE DigitsValue(LeadingDigits(w))

WireRest(w) == SubSeq(w, Len(LeadingDigits(w)) + 1, Len(w))

WireCode(w) ==
    IF WireRest(w) # << >> /\ Head(WireRest(w)) \notin Whitespace
    THEN Head(WireRest(w))
    ELSE " "

\* whether an argument follows the command string and its space
WireHasArgument(w) == strip(SubSeq(WireRest(w), 2, Len(WireRest(w)))) # << >>

\* the status of pump p after a command
StatusAfter(p, st, code) ==
    IF code \in { "run", "irun" } /\ st \in { "IDLE", "TARGET_REACHED" }
    THEN "INFUSING"
    ELSE IF code \in { "rrun", "wrun" } /\ st \in { "IDLE", "TARGET_REACHED" }
            /\ p \notin InfuseOnlyPumps
    THEN "WITHDRAWING"
    ELSE IF code = "stp" /\ st \in Moving THEN "IDLE"
    ELSE st

\* commands a pump rejects
Rejected(p, code) == code \in { "rrun", "wrun" } /\ p \in InfuseOnlyPumps

Catalog ==
    { EMPTY_MESSAGE, GET_VERSION, RUN, REVERSE_RUN, INFUSE, WITHDRAW, STOP, SET_DIAMETER,
      METRICS, GET_INFUSE_RATE, GET_INFUSE_RATE_LIMITS, SET_INFUSE_RATE,
      GET_WITHDRAW_RATE, SET_WITHDRAW_RATE, WITHDRAWN_VOLUME,
      CLEAR_WITHDRAWN_VOLUME,
      SET_SYRINGE_VOLUME, CLEAR_INFUSED_VOLUME,
      CLEAR_INFUSED_WITHDRAWN_VOLUME, CLEAR_TARGET_VOLUME }

\* the number of body lines of the reply to a command: reply_lines of its template
BodyLines(code, hasarg) ==
    LET known == { c \in Catalog :
                     c.command_string = code /\ c.requires_argument = hasarg }
    IN  IF known = {} THEN 0 ELSE (CHOOSE c \in known : TRUE).reply_lines

\* the diameter of the syringe the pumps are configured for, in mm
ConfiguredDiameter == 10

\* the rate limits a pump reports: a function of the diameter of its syringe
RateLimits(p) ==
    IF syringe[p] # ConfiguredDiameter
    THEN << "5", " ", "n", "l", "/", "m", "i", "n",
            " ", "t", "o", " ",
            "2", "5", " ", "m", "l", "/", "m", "i", "n" >>
    ELSE IF p \in InfuseOnlyPumps
    THEN << "0", ".", "0", "0", "1", " ", "m", "l", "/", "m", "i", "n",
            " ", "t", "o", " ",
            "1", "0", "0", " ", "m", "l", "/", "m", "i", "n" >>
    ELSE << "1", "0", " ", "n", "l", "/", "m", "i", "n",
            " ", "t", "o", " ",
            "5", "0", " ", "m", "l", "/", "m", "i", "n" >>

BodyText(p, code, k) ==
    IF code = "metrics" THEN MetricsLine(p, k)
    ELSE IF code = "irate lim" THEN RateLimits(p)
    ELSE << >>

\* the lines pump p sends back: the leading newline (with the prompt leaked
\* into it when stalled or at target), the body lines, the prompt
ReplyLines(p, st, code, hasarg) ==
    LET first == (IF st \in { "TARGET_REACHED", "STALLED" }
                  THEN PromptChars(st) ELSE << >>) \o << "\n" >>
    IN  IF Rejected(p, code)
        THEN << first, Prompt(p, st) \o TxtUnknownCommand >>
        ELSE << first >>
             \o [k \in 1..BodyLines(code, hasarg) |->
                    Prompt(p, st) \o BodyText(p, code, k) \o << "\r", "\n" >>]
             \o << Prompt(p, st) >>

\* what the serial line does with the bytes w: the addressed pump, if there
\* is one, changes status and answers; the lines are marked with the writer
DeviceStatus(w) ==
    LET p == WireAddress(w)
    IN  IF p \in Pumps
        THEN [dev EXCEPT ![p] = StatusAfter(p, dev[p], WireCode(w))]
        ELSE dev

\* the argument of a command line
WireArgument(w) == strip(SubSeq(WireRest(w), 2, Len(WireRest(w))))

\* the diameters of the syringes after the bytes w: the diameter command
\* sets that of the addressed pump to the millimeters of its argument
DeviceSyringe(w) ==
    LET p == WireAddress(w)
    IN  IF p \in Pumps /\ WireCode(w) = "diameter" /\ WireHasArgument(w)
           /\ LeadingDigits(WireArgument(w)) # << >>
        THEN [syringe EXCEPT ![p] = DigitsValue(LeadingDigits(WireArgument(w)))]
        ELSE syringe

DeviceAnswer(w, by) ==
    LET p == WireAddress(w)
        lines == IF p \in Pumps
                 THEN ReplyLines(p, DeviceStatus(w)[p], WireCode(w),
                                 WireHasArgument(w))
                 ELSE << >>
    IN  [i \in DOMAIN lines |-> [txt |-> lines[i], by |-> by]]

----------------------------------------------------------------------------
(* Elite11: the sessions *)

Sessions == { 1, 2 }

Tasks == { 1, 2 }

\* the addresses a session is constructed with
\* (2 is the address of no pump of the chain)
ConfiguredAddresses == { None, 0, 1, 2 }

ConfiguredSyringeVolume == 10

\* Elite11.__init__
Elite11(address, diameter, syringe_volume) ==
    [address |-> IF address # None /\ address # 0 THEN address ELSE None,
     name |-> address,
     diameter |-> diameter,
     syringe_volume |-> syringe_volume,
     withdraw_enabled |-> FALSE,
     pump_info |-> << >>,    \* the metrics text of the last pump_info()
     initialized |-> FALSE]

TxtMillimeter ==
    << " ", "m", "i", "l", "l", "i", "m", "e", "t", "e", "r" >>

\* f"{x:.<k>f}" of a whole number x
RECURSIVE Zeros(_)
Zeros(k) == IF k = 0 THEN << >> ELSE << "0" >> \o Zeros(k - 1)

format_f(x, k) == str(x) \o << "." >> \o Zeros(k)

\* text.split(sep)
RECURSIVE split(_, _)
split(text, sep) ==
    LET at == { i \in 1..(Len(text) - Len(sep) + 1) :
                  SubSeq(text, i, i + Len(sep) - 1) = sep }
        first == CHOOSE i \in at : \A j \in at : i <= j
    IN  IF at = { } THEN << text >>
        ELSE << SubSeq(text, 1, first - 1) >>
             \o split(SubSeq(text, first + Len(sep), Len(text)), sep)

TxtTo == << " ", "t", "o", " " >>

TxtMeterPerMinute == << " ", "m", "/", "m" >>

\* the units of a rate, each in nl/min; quantities are whole numbers of nl/min
NanoliterPerMinute == 1

MicroliterPerMinute == 1000

MilliliterPerMinute == 1000000

UnitNames ==
    { << "n", "l", "/", "m", "i", "n" >>, << "u", "l", "/", "m", "i", "n" >>,
      << "m", "l", "/", "m", "i", "n" >> }

UnitOf(name) ==
    IF name = << "n", "l", "/", "m", "i", "n" >> THEN NanoliterPerMinute
    ELSE IF name = << "u", "l", "/", "m", "i", "n" >> THEN MicroliterPerMinute
    ELSE MilliliterPerMinute

RECURSIVE Power10(_)
Power10(k) == IF k = 0 THEN 1 ELSE 10 * Power10(k - 1)

\* the leading characters of a text that belong to a decimal number
RECURSIVE LeadingNumber(_)
LeadingNumber(text) ==
    IF text # << >> /\ (IsDigit(Head(text)) \/ Head(text) = ".")
    THEN << Head(text) >> \o LeadingNumber(Tail(text))
    ELSE << >>

\* flowchem_ureg(text): the quantity a text such as "0.001 ml/min" denotes;
\* a text without number is one unit
flowchem_ureg(text) ==
    LET number == LeadingNumber(strip(text))
        name == strip(SubSeq(strip(text), Len(number) + 1, Len(strip(text))))
        parts == split(number, << "." >>)
        whole == IF parts[1] = << >> THEN 0 ELSE DigitsValue(parts[1])
        fraction == IF Len(parts) = 2 THEN parts[2] ELSE << >>
        decimals == IF fraction = << >> THEN 0 ELSE DigitsValue(fraction)
    IN  IF name \notin UnitNames
        THEN Raise("UndefinedUnitError", "unit")
        ELSE IF Len(parts) > 2
        THEN Raise("DefinitionSyntaxError", "number")
        ELSE IF number = << >> THEN Ok(UnitOf(name))
        ELSE Ok(whole * UnitOf(name)
                + (decimals * UnitOf(name)) \div Power10(Len(fraction)))

\* ensure_quantity(rate, "ml/min"): a bare number is taken in ml/min
ensure_quantity(rate) ==
    IF rate.units = << >> THEN rate.magnitude * MilliliterPerMinute
    ELSE rate.magnitude * UnitOf(rate.units)

\* a bounding that hands the request through
bound_rate_unbounded(rate, limits_raw) ==
    Ok([set_rate |-> ensure_quantity(rate), warned |-> << >>])

\* Elite11.bound_rate_to_pump_limits after the reply to its limits query:
\* the rate to set and the warnings given, or the failure of a limits text
\* that is not two quantities
bound_rate_to_pump_limits(rate, limits_raw) ==
    LET texts == split(limits_raw, TxtTo)
        limits == [i \in 1..Min(Len(texts), 3) |-> flowchem_ureg(texts[i])]
        bad == { i \in DOMAIN limits : ~limits[i].ok }
        first == CHOOSE i \in bad : \A j \in bad : i <= j
        set_rate == ensure_quantity(rate)
        raised == IF set_rate < limits[1].val THEN limits[1].val ELSE set_rate
        lowered == IF raised > limits[2].val THEN limits[2].val ELSE raised
    IN  IF bad # { } THEN Raise(limits[first].exc, limits[first].msg)
        ELSE IF Len(texts) # 2 THEN Raise("ValueError", "unpack")
        ELSE Ok([set_rate |-> lowered,
                 warned |-> (IF set_rate < limits[1].val
                             THEN << "lower" >> ELSE << >>)
                            \o (IF raised > limits[2].val
                                THEN << "higher" >> ELSE << >>)])

\* f"{set_rate:.10f}" of a rate in ml/min
format_rate(set_rate) ==
    LET nanoliters == str(set_rate % MilliliterPerMinute)
    IN  str(set_rate \div MilliliterPerMinute) \o << "." >>
        \o Zeros(6 - Len(nanoliters)) \o nanoliters \o Zeros(4)

\* a text of digits without the zeros at its end
RECURSIVE rstrip_zeros(_)
rstrip_zeros(s) ==
    IF s # << >> /\ s[Len(s)] = "0" THEN rstrip_zeros(SubSeq(s, 1, Len(s) - 1))
    ELSE s

\* f"{set_rate}" of a float rate in ml/min: the shortest text of the float,
\* with an exponent below 0.0001
format_repr(set_rate) ==
    LET nanoliters == str(set_rate % MilliliterPerMinute)
        fraction == rstrip_zeros(Zeros(6 - Len(nanoliters)) \o nanoliters)
        digits == rstrip_zeros(str(set_rate))
    IN  IF set_rate = 0 THEN << "0", ".", "0" >>
        ELSE IF set_rate >= 100
        THEN str(set_rate \div MilliliterPerMinute) \o << "." >>
             \o (IF fraction = << >> THEN << "0" >> ELSE fraction)
        ELSE << Head(digits) >>
             \o (IF Len(digits) > 1 THEN << "." >> \o Tail(digits) ELSE << >>)
             \o << "e", "-", "0" >> \o str(7 - Len(str(set_rate)))

\* what an operation does next: a command cycle, its end, or an exception
Call(template, parameter, parse, step) ==
    [kind |-> "call", template |-> template, parameter |-> parameter,
     parse |-> parse, step |-> step, exc |-> "", msg |-> ""]

Done(value) ==
    [kind |-> "done", template |-> EMPTY_MESSAGE, parameter |-> << >>,
     parse |-> TRUE, step |-> "", exc |-> "", msg |-> value]

\* await asyncio.sleep(...): the task is suspended until the timer wakes it
Sleep ==
    [kind |-> "sleep", template |-> EMPTY_MESSAGE, parameter |-> << >>,
     parse |-> TRUE, step |-> "", exc |-> "", msg |-> ""]

Fail(exc, msg) ==
    [kind |-> "fail", template |-> EMPTY_MESSAGE, parameter |-> << >>,
     parse |-> TRUE, step |-> "", exc |-> exc, msg |-> msg]

\* a session that lets the withdraw commands through once it is initialized
withdraw_enabled_by_initialize(self) == self.initialized

\* a session that lets every withdraw command through
withdraw_always_enabled(self) == TRUE

\* Elite11.ensure_withdraw_is_enabled
ensure_withdraw_is_enabled(self) == self.withdraw_enabled


\* Elite11.get_status: the command it sends
get_status == Call(EMPTY_MESSAGE, << >>, FALSE, "status")

\* Elite11.get_status: the status in the raw prompt line it was answered
get_status_reply(status) == PumpStatus(Slice(status, 2, 3))

\* a session that sees the pump moving only when it infuses
is_infusing(prompt) == prompt = "INFUSING"

\* a session that never sees the pump moving
never_moving(prompt) == FALSE

\* Elite11.is_moving
is_moving(prompt) == prompt \in { "INFUSING", "WITHDRAWING" }

\* Elite11.set_syringe_volume
set_syringe_volume(self) ==
    Call(SET_SYRINGE_VOLUME, format_f(self.syringe_volume, 15) \o << " ", "m" >>,
         TRUE, "svolume")

\* Elite11.set_syringe_diameter; a diameter out of 1-33 mm is ignored with a
\* warning, and initialize goes on with the syringe volume
set_syringe_diameter(self) ==
    IF ~(1 <= self.diameter /\ self.diameter <= 33)
    THEN set_syringe_volume(self)
    ELSE Call(SET_DIAMETER, format_f(self.diameter, 4) \o TxtMillimeter,
              TRUE, "diameter")

\* PumpInfo.parse_pumpstring: infuse_only, or the UnboundLocalError of a text
\* that lacks one of the three lines
parse_pumpstring(metrics_text) ==
    LET types == { i \in DOMAIN metrics_text :
                     startswith(metrics_text[i], TxtPumpType) }
        descriptions == { i \in DOMAIN metrics_text :
                            startswith(metrics_text[i], TxtPumpTypeString) }
        directions == { i \in DOMAIN metrics_text :
                          startswith(metrics_text[i], TxtDirection) }
        last == CHOOSE i \in directions : \A j \in directions : j <= i
    IN  IF types = {} \/ descriptions = {} \/ directions = {}
        THEN Raise("UnboundLocalError", "referenced before assignment")
        ELSE Ok(~contains(metrics_text[last], TxtWithdraw))

RunTemplate ==
    [run |-> RUN, inverse_run |-> REVERSE_RUN, infuse_run |-> INFUSE,
     withdraw_run |-> WITHDRAW]

RunOps == DOMAIN RunTemplate

Ops == RunOps \cup { "stop", "initialize", "version" }

\* a session that bounds every rate to the limits of its first syringe
set_infusion_rate_cached(rate, limits_raw) ==
    Call(SET_INFUSE_RATE,
         format_rate(bound_rate_to_pump_limits(rate,
                        << "1", "0", " ", "n", "l", "/", "m", "i", "n",
                           " ", "t", "o", " ",
                           "5", "0", " ", "m", "l", "/", "m", "i", "n" >>).val.set_rate)
            \o TxtMeterPerMinute,
         TRUE, "rate")

\* Elite11.set_infusion_rate once bound_rate_to_pump_limits has its limits
set_infusion_rate_bounded(rate, limits_raw) ==
    IF ~bound_rate_to_pump_limits(rate, limits_raw).ok
    THEN Fail(bound_rate_to_pump_limits(rate, limits_raw).exc,
              bound_rate_to_pump_limits(rate, limits_raw).msg)
    ELSE Call(SET_INFUSE_RATE,
              format_rate(bound_rate_to_pump_limits(rate, limits_raw).val.set_rate)
                 \o TxtMeterPerMinute,
              TRUE, "rate")

\* Elite11.set_withdrawing_rate once bound_rate_to_pump_limits has its limits
set_withdrawing_rate_bounded(rate, limits_raw) ==
    IF ~bound_rate_to_pump_limits(rate, limits_raw).ok
    THEN Fail(bound_rate_to_pump_limits(rate, limits_raw).exc,
              bound_rate_to_pump_limits(rate, limits_raw).msg)
    ELSE Call(SET_WITHDRAW_RATE,
              format_repr(bound_rate_to_pump_limits(rate, limits_raw).val.set_rate)
                 \o TxtMeterPerMinute,
              TRUE, "rate")

\* the operations of one command that need withdraw capabilities
WithdrawTemplate ==
    [get_withdrawing_rate |-> GET_WITHDRAW_RATE,
     get_withdrawn_volume |-> WITHDRAWN_VOLUME,
     clear_withdrawn_volume |-> CLEAR_WITHDRAWN_VOLUME,
     clear_infused_withdrawn_volume |-> CLEAR_INFUSED_WITHDRAWN_VOLUME]

WithdrawOps == DOMAIN WithdrawTemplate

\* a session whose stop() asks for the status first
OpFirst_stop_checked(op, self) ==
    IF op = "stop" THEN get_status
    ELSE IF op = "version" THEN Call(GET_VERSION, << >>, TRUE, "version")
    ELSE IF op = "withdraw_run" /\ ~ensure_withdraw_is_enabled(self)
    THEN Fail("DeviceError", "infuse-only pump")
    ELSE IF op \in RunOps THEN get_status
    ELSE IF op = "wait_until_idle" THEN get_status
    ELSE IF op \in WithdrawOps /\ ~ensure_withdraw_is_enabled(self)
    THEN Fail("DeviceError", "infuse-only pump")
    ELSE IF op \in WithdrawOps THEN Call(WithdrawTemplate[op], << >>, TRUE, "send")
    ELSE IF op = "clear_infused_volume"
    THEN Call(CLEAR_INFUSED_VOLUME, << >>, TRUE, "send")
    ELSE IF op = "clear_volumes"
    THEN Call(CLEAR_TARGET_VOLUME, << >>, TRUE, "ctvolume")
    ELSE set_syringe_diameter(self)

\* the operation up to its first command
OpFirst(op, self) ==
    IF op = "stop" THEN Call(STOP, << >>, TRUE, "stop")
    ELSE IF op = "version" THEN Call(GET_VERSION, << >>, TRUE, "version")
    ELSE IF op = "withdraw_run" /\ ~ensure_withdraw_is_enabled(self)
    THEN Fail("DeviceError", "infuse-only pump")
    ELSE IF op \in RunOps THEN get_status
    ELSE IF op = "wait_until_idle" THEN get_status
    ELSE IF op \in WithdrawOps /\ ~ensure_withdraw_is_enabled(self)
    THEN Fail("DeviceError", "infuse-only pump")
    ELSE IF op \in WithdrawOps THEN Call(WithdrawTemplate[op], << >>, TRUE, "send")
    ELSE IF op = "clear_infused_volume"
    THEN Call(CLEAR_INFUSED_VOLUME, << >>, TRUE, "send")
    ELSE IF op = "clear_volumes"
    THEN Call(CLEAR_TARGET_VOLUME, << >>, TRUE, "ctvolume")
    ELSE set_syringe_diameter(self)

\* the session after the reply to a command of the operation
SessAfter(op, step, self, reply) ==
    IF op = "initialize" /\ step = "metrics" /\ parse_pumpstring(reply).ok
    THEN [self EXCEPT !.withdraw_enabled = ~parse_pumpstring(reply).val,
                      !.pump_info = reply]
    ELSE IF op = "initialize" /\ step = "clear"
    THEN [self EXCEPT !.initialized = TRUE]
    ELSE self

\* the operation from the reply to a command up to its next command
OpAfter(op, step, self, reply, rate) ==
    IF op = "stop" THEN Done("stopped")
    ELSE IF op = "version" THEN Done("version")
    ELSE IF op = "send_command_and_read_reply" THEN Done("reply")
    ELSE IF op = "set_infusion_rate" /\ step = "limits"
    THEN set_infusion_rate_bounded(rate, reply[1])
    ELSE IF op = "set_infusion_rate" THEN Done("rate set")
    ELSE IF op = "set_withdrawing_rate" /\ step = "limits"
    THEN set_withdrawing_rate_bounded(rate, reply[1])
    ELSE IF op = "set_withdrawing_rate" THEN Done("rate set")
    ELSE IF op = "set_syringe_diameter" THEN Done("diameter set")
    ELSE IF op \in WithdrawOps \cup { "clear_infused_volume" } THEN Done("reply")
    ELSE IF op = "clear_volumes" /\ step = "clear" THEN Done("cleared")
    ELSE IF op = "wait_until_idle"
    THEN (IF ~get_status_reply(reply[1]).ok
          THEN Fail(get_status_reply(reply[1]).exc, get_status_reply(reply[1]).msg)
          ELSE IF is_moving(get_status_reply(reply[1]).val)
          THEN Sleep
          ELSE Done("idle"))
    ELSE IF op \in RunOps /\ step = "status"
    THEN (IF ~get_status_reply(reply[1]).ok
          THEN Fail(get_status_reply(reply[1]).exc, get_status_reply(reply[1]).msg)
          ELSE IF is_moving(get_status_reply(reply[1]).val)
          THEN Done("Cannot start pump: already moving!")
          ELSE Call(RunTemplate[op], << >>, TRUE, "start"))
    ELSE IF op \in RunOps THEN Done("started")
    ELSE IF step = "diameter" THEN set_syringe_volume(self)
    ELSE IF step = "svolume" THEN Call(METRICS, << >>, TRUE, "metrics")
    ELSE IF step = "metrics"
    THEN (IF ~parse_pumpstring(reply).ok
          THEN Fail(parse_pumpstring(reply).exc, parse_pumpstring(reply).msg)
          ELSE Call(CLEAR_TARGET_VOLUME, << >>, TRUE, "ctvolume"))
    ELSE IF step = "ctvolume"
    THEN (IF self.withdraw_enabled
          THEN Call(CLEAR_INFUSED_WITHDRAWN_VOLUME, << >>, TRUE, "clear")
          ELSE Call(CLEAR_INFUSED_VOLUME, << >>, TRUE, "clear"))
    ELSE Done("initialized")

----------------------------------------------------------------------------
(* The tasks of the event loop and the cycle of PumpIO.write_and_read_reply *)

IdleTask ==
    [op |-> "", s |-> 1, pc |-> "idle", step |-> "", cyc |-> "none",
     cmd |-> NoCommand, parse |-> TRUE, n |-> 0, raw |-> << >>,
     resp |-> << >>, prompt |-> "", out |-> Ok(""), sent |-> << >>,
     wire |-> << >>,
     rate |-> [magnitude |-> 0, units |-> << >>], limits |-> << >>,
     set_rate |-> 0, warned |-> << >>, log |-> << >>]

Texts(lines) == [i \in DOMAIN lines |-> lines[i].txt]

\* PumpIO.reset_buffer: the unread input is dropped
reset_buffer(buffer) == << >>

\* a blocking call (serial.write, serial.readline) is running on the event
\* loop: no coroutine runs meanwhile, the executor threads do
LoopBlocked == \E t \in Tasks : task[t].cyc = "sync"

\* task t, its operation being at `r` (OpFirst, OpAfter), runs on to its next
\* suspension: the end of the operation, or the write of the next command
\* handed to the write executor (to_pump, reset_buffer, compile, write_async)
Proceed(t, tk, se, r, buffer) ==
    LET command == to_pump(r.template, se.address, r.parameter)
        command_msg == compile(command.val)
        failed(e) == [tk EXCEPT !.pc = "failed", !.cyc = "none", !.out = e]
    IN  /\ sess' = [sess EXCEPT ![tk.s] = se]
        /\ IF r.kind = "done"
           THEN /\ task' = [task EXCEPT ![t] =
                               [tk EXCEPT !.pc = "done", !.cyc = "none",
                                          !.out = Ok(r.msg)]]
                /\ rx' = buffer
                /\ wq' = wq
           ELSE IF r.kind = "sleep"
           THEN /\ task' = [task EXCEPT ![t] = [tk EXCEPT !.cyc = "sleeping"]]
                /\ rx' = buffer
                /\ wq' = wq
           ELSE IF r.kind = "fail"
           THEN /\ task' = [task EXCEPT ![t] = failed(Raise(r.exc, r.msg))]
                /\ rx' = buffer
                /\ wq' = wq
           ELSE IF ~command.ok
           THEN /\ task' = [task EXCEPT ![t] =
                               failed(Raise(command.exc, command.msg))]
                /\ rx' = buffer
                /\ wq' = wq
           ELSE IF ~command_msg.ok
           THEN /\ task' = [task EXCEPT ![t] =
                               [failed(Raise(command_msg.exc, command_msg.msg))
                                   EXCEPT !.log = << "discard" >>]]
                /\ rx' = reset_buffer(buffer)
                /\ wq' = wq
           ELSE /\ task' = [task EXCEPT ![t] =
                               [tk EXCEPT !.pc = "running", !.cyc = "queued",
                                          !.step = r.step, !.cmd = command.val,
                                          !.parse = r.parse, !.n = 0,
                                          !.raw = << >>, !.resp = << >>,
                                          !.log = << "discard" >>]]
                /\ rx' = reset_buffer(buffer)
                /\ wq' = Append(wq, t)

\* a caller starts operation op of session s in task t
Start(t, s, op) ==
    /\ task[t].pc \in { "idle", "done", "failed" }
    /\ ~LoopBlocked
    /\ nops' = nops + 1
    /\ UNCHANGED << io_instances, pump_io, syringe >>
    /\ LET tk == [IdleTask EXCEPT !.op = op, !.s = s, !.pc = "running"]
       IN  IF op = "initialize" /\ sess[s].address = None
           THEN \* Elite11.initialize: address autodetection, a blocking write
                IF link
                THEN /\ task' = [task EXCEPT ![t] = [tk EXCEPT !.cyc = "sync"]]
                     /\ rx' = rx \o DeviceAnswer(<< "\r", "\n" >>, t)
                     /\ UNCHANGED << sess, dev, link, wq >>
                ELSE /\ task' = [task EXCEPT ![t] =
                                    [tk EXCEPT !.pc = "failed",
                                               !.out = Raise("SerialException", "write")]]
                     /\ UNCHANGED << sess, dev, link, rx, wq >>
           ELSE /\ Proceed(t, tk, sess[s], OpFirst(op, sess[s]), rx)
                /\ UNCHANGED << dev, link >>

\* a caller calls send_command_and_read_reply of session s in task t with a
\* template and a parameter of its choice; until to_pump has bound the
\* address, the command of the task holds the template and the parameter
send_command_and_read_reply(t, s, command_template, parameter) ==
    /\ task[t].pc \in { "idle", "done", "failed" }
    /\ ~LoopBlocked
    /\ nops' = nops + 1
    /\ Proceed(t,
               [IdleTask EXCEPT
                   !.op = "send_command_and_read_reply", !.s = s,
                   !.pc = "running",
                   !.cmd = [command_string |-> command_template.command_string,
                            reply_lines |-> command_template.reply_lines,
                            requires_argument |-> command_template.requires_argument,
                            target_pump_address |-> None,
                            command_argument |-> parameter]],
               sess[s], Call(command_template, parameter, TRUE, "send"), rx)
    /\ UNCHANGED << dev, link >>
    /\ UNCHANGED << io_instances, pump_io, syringe >>

\* a caller calls set_infusion_rate(rate) of session s in task t: up to the
\* limits query of bound_rate_to_pump_limits
set_infusion_rate(t, s, rate) ==
    /\ task[t].pc \in { "idle", "done", "failed" }
    /\ ~LoopBlocked
    /\ nops' = nops + 1
    /\ Proceed(t,
               [IdleTask EXCEPT !.op = "set_infusion_rate", !.s = s,
                                !.pc = "running", !.rate = rate],
               sess[s], Call(GET_INFUSE_RATE_LIMITS, << >>, TRUE, "limits"), rx)
    /\ UNCHANGED << dev, link >>
    /\ UNCHANGED << io_instances, pump_io, syringe >>

\* a caller calls set_withdrawing_rate(rate) of session s in task t: up to
\* the limits query of bound_rate_to_pump_limits
set_withdrawing_rate(t, s, rate) ==
    /\ task[t].pc \in { "idle", "done", "failed" }
    /\ ~LoopBlocked
    /\ nops' = nops + 1
    /\ Proceed(t,
               [IdleTask EXCEPT !.op = "set_withdrawing_rate", !.s = s,
                                !.pc = "running", !.rate = rate],
               sess[s],
               IF ensure_withdraw_is_enabled(sess[s])
               THEN Call(GET_INFUSE_RATE_LIMITS, << >>, TRUE, "limits")
               ELSE Fail("DeviceError", "infuse-only pump"),
               rx)
    /\ UNCHANGED << dev, link >>
    /\ UNCHANGED << io_instances, pump_io, syringe >>

\* a caller calls set_syringe_diameter(diameter) of session s in task t; a
\* diameter out of 1-33 mm is ignored with a warning
set_syringe_diameter_to(t, s, diameter) ==
    /\ task[t].pc \in { "idle", "done", "failed" }
    /\ ~LoopBlocked
    /\ nops' = nops + 1
    /\ Proceed(t,
               [IdleTask EXCEPT !.op = "set_syringe_diameter", !.s = s,
                                !.pc = "running"],
               sess[s],
               IF ~(1 <= diameter /\ diameter <= 33)
               THEN Done("ignored")
               ELSE Call(SET_DIAMETER, format_f(diameter, 4) \o TxtMillimeter,
                         TRUE, "diameter"),
               rx)
    /\ UNCHANGED << dev, link >>
    /\ UNCHANGED << io_instances, pump_io, syringe >>

\* the timer of asyncio.sleep wakes the task of wait_until_idle, which asks
\* for the status again
Wake(t) ==
    /\ task[t].cyc = "sleeping"
    /\ ~LoopBlocked
    /\ Proceed(t, [task[t] EXCEPT !.sent = << >>], sess[task[t].s], get_status, rx)
    /\ UNCHANGED << dev, link, nops >>
    /\ UNCHANGED << io_instances, pump_io, syringe >>

\* Elite11.initialize: the two blocking readline() of the autodetection, then
\* on to set_syringe_diameter
AutoRead(t) ==
    /\ task[t].cyc = "sync"
    /\ LET tk == task[t]
           prompt == IF rx = << >> THEN << >> ELSE Head(rx).txt
           buffer == IF rx = << >> THEN rx ELSE Tail(rx)
           address == int(Slice(prompt, 0, 2))
           se == [sess[tk.s] EXCEPT !.address = address.val]
       IN  IF ~link
           THEN /\ task' = [task EXCEPT ![t] =
                               [tk EXCEPT !.pc = "failed", !.cyc = "none",
                                          !.out = Raise("SerialException", "read")]]
                /\ UNCHANGED << sess, rx, wq >>
           ELSE IF tk.n = 0
           THEN /\ task' = [task EXCEPT ![t] = [tk EXCEPT !.n = 1]]
                /\ rx' = buffer
                /\ UNCHANGED << sess, wq >>
           ELSE IF ~address.ok
           THEN /\ task' = [task EXCEPT ![t] =
                               [tk EXCEPT !.pc = "failed", !.cyc = "none",
                                          !.out = Raise(address.exc, address.msg)]]
                /\ rx' = buffer
                /\ UNCHANGED << sess, wq >>
           ELSE Proceed(t, tk, se, set_syringe_diameter(se), buffer)
    /\ UNCHANGED << dev, link, nops >>
    /\ UNCHANGED << io_instances, pump_io, syringe >>

\* a write executor that keeps a command whose write failed at the head of
\* its queue
Written_kept(t, status, answer) ==
    /\ wq # << >>
    /\ Head(wq) = t
    /\ IF link
       THEN /\ wq' = Tail(wq)
            /\ dev' = status
            /\ syringe' = DeviceSyringe(compile(task[t].cmd).val)
            /\ rx' = rx \o answer
            /\ task' = [task EXCEPT ![t] =
                           [@ EXCEPT !.cyc = "reading",
                                     !.sent = Append(@, task[t].cmd.command_string),
                                     !.wire = compile(task[t].cmd).val,
                                     !.log = Append(@, "write")]]
       ELSE /\ task' = [task EXCEPT ![t] =
                           [@ EXCEPT !.pc = "failed", !.cyc = "none",
                                     !.out = Raise("InvalidConfiguration", "write")]]
            /\ UNCHANGED << dev, syringe, rx, wq >>
    /\ UNCHANGED << sess, link, nops >>
    /\ UNCHANGED << io_instances, pump_io >>

\* PumpIO._write in the write executor: the oldest submitted command goes on
\* the wire, where it changes the pumps to `status` and is answered by the
\* lines `answer`; a dead port raises
Written(t, status, answer) ==
    /\ wq # << >>
    /\ Head(wq) = t
    /\ wq' = Tail(wq)
    /\ IF link
       THEN /\ dev' = status
            /\ syringe' = DeviceSyringe(compile(task[t].cmd).val)
            /\ rx' = rx \o answer
            /\ task' = [task EXCEPT ![t] =
                           [@ EXCEPT !.cyc = "reading",
                                     !.sent = Append(@, task[t].cmd.command_string),
                                     !.wire = compile(task[t].cmd).val,
                                     !.log = Append(@, "write")]]
       ELSE /\ task' = [task EXCEPT ![t] =
                           [@ EXCEPT !.pc = "failed", !.cyc = "none",
                                     !.out = Raise("InvalidConfiguration", "write")]]
            /\ UNCHANGED << dev, syringe, rx >>
    /\ UNCHANGED << sess, link, nops >>
    /\ UNCHANGED << io_instances, pump_io >>

\* the write, answered by the pumps of the chain
Write(t) ==
    /\ wq # << >>
    /\ Head(wq) = t
    /\ \E w \in { compile(task[t].cmd).val } :
          \E status \in { DeviceStatus(w) }, answer \in { DeviceAnswer(w, t) } :
             Written(t, status, answer)

\* a reader that keeps what the first line holds
first_line_kept(line_num, chunk) == chunk

\* a reader that drops the line after the first
first_line_late(line_num, chunk) == IF line_num = 1 THEN << >> ELSE chunk

\* PumpIO._read_reply: what leaks into the first line is dropped
first_line_fix(line_num, chunk) == IF line_num = 0 THEN << >> ELSE chunk

\* a reader that reads the body lines and one line more
reply_reads_one_less(command) == command.reply_lines + 1

\* PumpIO._read_reply: the number of lines read, +1 for the leading newline
\* of the reply and +1 for the prompt
reply_reads(command) == command.reply_lines + 2

\* PumpIO._read_reply: one readline_async in the read executor; an empty
\* buffer gives the empty chunk of the timeout
ReadLine(t) ==
    /\ task[t].cyc = "reading"
    /\ LET tk == task[t]
           line == IF rx = << >> THEN [txt |-> << >>, by |-> t] ELSE Head(rx)
           chunk == first_line_fix(tk.n, strip(line.txt))
           reply_string == IF chunk # << >>
                           THEN Append(tk.resp, [txt |-> chunk, by |-> line.by])
                           ELSE tk.resp
       IN  IF ~link
           THEN /\ task' = [task EXCEPT ![t] =
                               [tk EXCEPT !.pc = "failed", !.cyc = "none",
                                          !.out = Raise("SerialException", "read")]]
                /\ rx' = rx
           ELSE /\ task' = [task EXCEPT ![t] =
                               [tk EXCEPT !.n = tk.n + 1,
                                          !.raw = Append(@, line.txt),
                                          !.resp = reply_string,
                                          !.log = Append(@, "read"),
                                          !.cyc = IF tk.n + 1 = reply_reads(tk.cmd)
                                                  THEN "complete" ELSE "reading"]]
                /\ rx' = IF rx = << >> THEN rx ELSE Tail(rx)
    /\ UNCHANGED << sess, dev, link, wq, nops >>
    /\ UNCHANGED << io_instances, pump_io, syringe >>

\* the task as it goes on after a reply: a status reply is remembered as the
\* prompt that is_moving judges
Seen(tk, reply) ==
    IF tk.step = "status" /\ get_status_reply(reply[1]).ok
    THEN [tk EXCEPT !.prompt = get_status_reply(reply[1]).val]
    ELSE IF tk.step = "limits" /\ bound_rate_to_pump_limits(tk.rate, reply[1]).ok
    THEN [tk EXCEPT
             !.limits = reply[1],
             !.set_rate = bound_rate_to_pump_limits(tk.rate, reply[1]).val.set_rate,
             !.warned = bound_rate_to_pump_limits(tk.rate, reply[1]).val.warned]
    ELSE IF tk.step = "limits" THEN [tk EXCEPT !.limits = reply[1]]
    ELSE tk

\* a driver that sends its command again when the cycle has failed
Resumed_resend(t, reply) ==
    IF ~reply.ok
    THEN /\ task' = [task EXCEPT ![t] =
                        [@ EXCEPT !.cyc = "queued", !.n = 0, !.raw = << >>,
                                  !.resp = << >>]]
         /\ rx' = reset_buffer(rx)
         /\ wq' = Append(wq, t)
         /\ UNCHANGED sess
    ELSE Proceed(t, Seen(task[t], reply.val),
                 SessAfter(task[t].op, task[t].step, sess[task[t].s], reply.val),
                 OpAfter(task[t].op, task[t].step, sess[task[t].s], reply.val,
                         task[t].rate),
                 rx)

\* write_and_read_reply raises or returns `reply` to the operation, which
\* goes on up to its next command
Resumed(t, reply) ==
    IF ~reply.ok
    THEN /\ task' = [task EXCEPT ![t] =
                        [@ EXCEPT !.pc = "failed", !.cyc = "none",
                                  !.out = Raise(reply.exc, reply.msg)]]
         /\ UNCHANGED << sess, rx, wq >>
    ELSE Proceed(t, Seen(task[t], reply.val),
                 SessAfter(task[t].op, task[t].step, sess[task[t].s], reply.val),
                 OpAfter(task[t].op, task[t].step, sess[task[t].s], reply.val,
                         task[t].rate),
                 rx)

\* the task resumes with the lines read: the rest of write_and_read_reply,
\* then the operation up to its next command
Continue(t) ==
    /\ task[t].cyc = "complete"
    /\ ~LoopBlocked
    /\ \E reply \in { write_and_read_reply(Texts(task[t].resp), task[t].cmd,
                                            task[t].parse) } :
          Resumed(t, reply)
    /\ UNCHANGED << dev, link, nops >>
    /\ UNCHANGED << io_instances, pump_io, syringe >>

\* a moving pump reaches its target volume, or stalls
PumpEvent(p) ==
    /\ dev[p] \in Moving
    /\ \E st \in { "TARGET_REACHED", "STALLED" } : dev' = [dev EXCEPT ![p] = st]
    /\ UNCHANGED << sess, link, rx, wq, task, nops >>
    /\ UNCHANGED << io_instances, pump_io, syringe >>

\* the serial port fails (cable, adapter)
Unplug ==
    /\ link
    /\ link' = FALSE
    /\ UNCHANGED << sess, dev, rx, wq, task, nops >>
    /\ UNCHANGED << io_instances, pump_io, syringe >>

\* a session after a completed initialize() on pump p
Initialized(p) ==
    [Elite11(p, ConfiguredDiameter, ConfiguredSyringeVolume) EXCEPT
        !.address = p,
        !.withdraw_enabled = p \notin InfuseOnlyPumps,
        !.pump_info = [k \in 1..METRICS.reply_lines |-> MetricsLine(p, k)],
        !.initialized = TRUE]

Constructed == { Elite11(a, ConfiguredDiameter, ConfiguredSyringeVolume) :
                   a \in ConfiguredAddresses }

\* a PumpIO object (id: its identity) with the port of its AioSerial
PumpIO(id, port) == [id |-> id, port |-> port]

\* no PumpIO object
NoPumpIO == PumpIO(0, "")

\* the sessions of one daisy chain, made by from_config(port="COM4", ...)
InitRest ==
    /\ io_instances = { PumpIO(1, "COM4") }
    /\ pump_io = [s \in Sessions |-> PumpIO(1, "COM4")]
    /\ dev = [p \in Pumps |-> "IDLE"]
    /\ syringe = [p \in Pumps |-> ConfiguredDiameter]
    /\ link = TRUE
    /\ rx = << >>
    /\ wq = << >>
    /\ task = [t \in Tasks |-> IdleTask]
    /\ nops = 0

(* Concurrent callers of the motion operations, on sessions that are already *)
(* initialized or were constructed with an address.                          *)

ConcurrentOps == { "run", "withdraw_run", "stop" }

Init ==
    /\ sess \in [Sessions -> { Initialized(p) : p \in Pumps } \cup Constructed]
    /\ sess[1].initialized
    /\ ~sess[2].initialized /\ sess[2].address # None
    /\ InitRest

Next ==
    \/ \E t \in Tasks, s \in Sessions, op \in ConcurrentOps :
          /\ nops < MaxOps
          /\ t = 1 \/ task[1].pc # "idle"    \* the tasks are interchangeable
          /\ Start(t, s, op)
    \/ \E t \in Tasks : Write(t)
    \/ \E t \in Tasks : ReadLine(t)
    \/ \E t \in Tasks : Continue(t)
    \/ \E p \in Pumps : PumpEvent(p)
    \/ Unplug

Spec == Init /\ [][Next]_vars

(* One caller, one operation after the other, from construction on. *)

InitSeq ==
    /\ sess \in [Sessions -> Constructed]
    /\ InitRest

NextSeq ==
    \/ \E s \in Sessions, op \in Ops \ { "version" } :
          nops < MaxSeqOps /\ Start(1, s, op)
    \/ AutoRead(1)
    \/ Write(1)
    \/ ReadLine(1)
    \/ Continue(1)
    \/ \E p \in Pumps : PumpEvent(p)
    \/ Unplug

SpecSeq == InitSeq /\ [][NextSeq]_vars

(* One caller of initialize, on sessions of any configured address and of a *)
(* syringe diameter within and beyond the range the pump takes.              *)

AnyDiameters == { 10, 40 }

InitInit ==
    /\ sess \in [Sessions -> { Elite11(a, d, ConfiguredSyringeVolume) :
                                 a \in ConfiguredAddresses, d \in AnyDiameters }]
    /\ InitRest

NextInit ==
    \/ \E s \in Sessions : nops < MaxOps /\ Start(1, s, "initialize")
    \/ AutoRead(1)
    \/ Write(1)
    \/ ReadLine(1)
    \/ Continue(1)
    \/ Unplug

SpecInit == InitInit /\ [][NextInit]_vars

(* One caller against a line that answers anything: every reply of up to *)
(* reply_lines + 2 lines drawn from ArbLines.                            *)

ArbAddress == { << "0", "1" >>, << "0", "2" >>, << "x", "1" >> }

ArbStatus == { << ":" >>, << ">" >>, << "*" >>, << "T", "*" >>, << "?" >> }

ArbBody ==
    { << >>, << "o", "k" >>, TxtCommandError, TxtUnknownCommand,
      TxtArgumentError, TxtOutOfRange,
      TxtOutOfRange \o << " " >> \o TxtArgumentError }

\* lines of other pumps, as the pump sends a rate and a reached target
LineInfusing ==
    << "0", "9", ">", "0", ".", "2", "0", " ", "m", "l", "/", "m", "i", "n" >>

LineTargetReached == << "0", "5", "T", "*", "d", "o", "n", "e" >>

\* raw lines as the line sends them, the end of line included
ArbLines ==
    { a \o st \o << "\r", "\n" >> : a \in ArbAddress, st \in ArbStatus }
    \cup { << "0", "1" >> \o st \o b \o << "\r", "\n" >> :
             st \in { << ":" >>, << "*" >>, << "T", "*" >> }, b \in ArbBody }
    \cup { << "\r", "\n" >>, << "0", "\r", "\n" >>, << "0", "1", "\n" >> }
    \cup { LineInfusing \o << "\r", "\n" >>, LineTargetReached \o << "\r", "\n" >> }

\* what the first line may hold
Decoys == { << "\n" >>, << "T", "*", "\n" >>, << "0", "2", "*", "o", "k", "\n" >> }

RECURSIVE SeqsOf(_, _)
SeqsOf(S, n) ==
    IF n = 0 THEN { << >> }
    ELSE { << x >> \o r : x \in S, r \in SeqsOf(S, n - 1) }

ArbReplies(n) ==
    { << >> } \cup { << d >> \o r : d \in Decoys, r \in SeqsOf(ArbLines, n + 1) }

WriteArb(t) ==
    /\ wq # << >>
    /\ \E lines \in ArbReplies(task[t].cmd.reply_lines) :
          Written(t, dev, [i \in DOMAIN lines |-> [txt |-> lines[i], by |-> t]])

InitIO ==
    /\ sess = [s \in Sessions |-> Elite11(1, ConfiguredDiameter, ConfiguredSyringeVolume)]
    /\ InitRest

NextIO ==
    \/ \E op \in { "stop", "version" } : nops < MaxOps /\ Start(1, 1, op)
    \/ WriteArb(1)
    \/ ReadLine(1)
    \/ Continue(1)
    \/ Unplug

SpecIO == InitIO /\ [][NextIO]_vars

(* One caller of send_command_and_read_reply, with any template, any *)
(* parameter and a session of any address.                           *)

AnyAddresses == { None, 0, 1, 2, 10, 98, 99, 100, 0 - 2 }

AnyParameters == { << >>, << "1" >> }

InitCmd ==
    /\ \E a \in AnyAddresses :
          sess = [s \in Sessions |->
                    Elite11(a, ConfiguredDiameter, ConfiguredSyringeVolume)]
    /\ InitRest

NextCmd ==
    \/ \E command_template \in Catalog \ { METRICS }, parameter \in AnyParameters :
          nops < MaxOps /\ send_command_and_read_reply(1, 1, command_template, parameter)
    \/ Write(1)
    \/ ReadLine(1)
    \/ Continue(1)
    \/ \E p \in Pumps : PumpEvent(p)

SpecCmd == InitCmd /\ [][NextCmd]_vars

(* One caller of set_infusion_rate on two initialized pumps. *)

Rates ==
    { [magnitude |-> 0, units |-> << >>],
      [magnitude |-> 50, units |-> << >>],
      [magnitude |-> 200, units |-> << "m", "l", "/", "m", "i", "n" >>],
      [magnitude |-> 5, units |-> << "n", "l", "/", "m", "i", "n" >>],
      [magnitude |-> 70, units |-> << "u", "l", "/", "m", "i", "n" >>] }

InitRate ==
    /\ sess = [s \in Sessions |-> Initialized(s - 1)]
    /\ InitRest

NextRate ==
    \/ \E s \in Sessions, rate \in Rates :
          nops < MaxOps /\ set_infusion_rate(1, s, rate)
    \/ Write(1)
    \/ ReadLine(1)
    \/ Continue(1)
    \/ Unplug

SpecRate == InitRate /\ [][NextRate]_vars

(* One caller that sets rates and changes the syringe, one operation after *)
(* the other, on initialized sessions.                                      *)

LimitRates ==
    { [magnitude |-> 200, units |-> << "m", "l", "/", "m", "i", "n" >>],
      [magnitude |-> 5, units |-> << "n", "l", "/", "m", "i", "n" >>],
      [magnitude |-> 70, units |-> << "u", "l", "/", "m", "i", "n" >>] }

\* the diameters a caller asks for: two the pump takes, one it does not
Diameters == { 5, 10, 40 }

InitLimits ==
    /\ sess = [s \in Sessions |-> Initialized(s - 1)]
    /\ InitRest

NextLimits ==
    \/ \E s \in Sessions, rate \in LimitRates :
          nops < MaxSeqOps /\ set_infusion_rate(1, s, rate)
    \/ \E s \in Sessions, rate \in LimitRates :
          nops < MaxSeqOps /\ set_withdrawing_rate(1, s, rate)
    \/ \E s \in Sessions, diameter \in Diameters :
          nops < MaxSeqOps /\ set_syringe_diameter_to(1, s, diameter)
    \/ Write(1)
    \/ ReadLine(1)
    \/ Continue(1)
    \/ Unplug

SpecLimits == InitLimits /\ [][NextLimits]_vars

(* Two callers on initialized sessions: one sets a rate while the other *)
(* changes the syringe.                                                  *)

NextRace ==
    \/ \E s \in Sessions, rate \in LimitRates :
          nops < MaxOps /\ set_infusion_rate(1, s, rate)
    \/ \E s \in Sessions, rate \in LimitRates :
          nops < MaxOps /\ set_withdrawing_rate(1, s, rate)
    \/ \E s \in Sessions, diameter \in Diameters :
          nops < MaxOps /\ set_syringe_diameter_to(2, s, diameter)
    \/ \E t \in Tasks : Write(t)
    \/ \E t \in Tasks : ReadLine(t)
    \/ \E t \in Tasks : Continue(t)

SpecRace == InitLimits /\ [][NextRace]_vars

(* One caller of initialize and of the operations that need withdraw *)
(* capabilities or choose by them, one operation after the other, on  *)
(* sessions as constructed: without address, which initialize detects *)
(* as that of the infuse-only pump 0, or with address 1.              *)

WithdrawRates == { [magnitude |-> 70, units |-> << "u", "l", "/", "m", "i", "n" >>] }

CapabilityOps ==
    WithdrawOps \cup { "initialize", "withdraw_run", "clear_infused_volume",
                       "clear_volumes" }

InitWithdraw ==
    /\ sess \in [Sessions -> { Elite11(a, ConfiguredDiameter, ConfiguredSyringeVolume) :
                                 a \in { None, 1 } }]
    /\ InitRest

NextWithdraw ==
    \/ \E s \in Sessions, op \in CapabilityOps :
          nops < MaxSeqOps /\ Start(1, s, op)
    \/ \E s \in Sessions, rate \in WithdrawRates :
          nops < MaxSeqOps /\ set_withdrawing_rate(1, s, rate)
    \/ AutoRead(1)
    \/ Write(1)
    \/ ReadLine(1)
    \/ Continue(1)

SpecWithdraw == InitWithdraw /\ [][NextWithdraw]_vars

(* One caller that starts the pumps and waits for them, one operation *)
(* after the other, on initialized sessions.                            *)

WaitOps == { "run", "withdraw_run", "wait_until_idle" }

NextWait ==
    \/ \E s \in Sessions, op \in WaitOps :
          nops < MaxOps /\ Start(1, s, op)
    \/ Write(1)
    \/ ReadLine(1)
    \/ Continue(1)
    \/ Wake(1)
    \/ \E p \in Pumps : PumpEvent(p)
    \/ Unplug

\* the executors finish the write and the reads they were given, and the
\* event loop runs a task whose read is done or whose timer has expired; the
\* callers, the pumps and the cable owe nothing
SpecWait ==
    /\ InitLimits
    /\ [][NextWait]_vars
    /\ WF_vars(Write(1))
    /\ WF_vars(ReadLine(1))
    /\ WF_vars(Continue(1))
    /\ WF_vars(Wake(1))

(* Sessions made by Elite11.from_config, in any number and for any port. *)

MaxAcquisitions == 4

Ports == { "COM3", "COM4", "COM5" }

\* a from_config that never finds an existing PumpIO
matching_none(instances, port) == { }

\* Elite11.from_config: the PumpIO objects of the registry on that port
matching(instances, port) == { obj \in instances : obj.port = port }

\* Elite11.from_config(port, address, diameter, syringe_volume), its result
\* bound to the name s: the first registered PumpIO of that port or else a
\* new one (whose port may fail to open), then Elite11.__init__, which
\* registers the PumpIO before it checks the diameter
from_config(s, port, address, diameter, created) ==
    /\ nops < MaxAcquisitions
    /\ nops' = nops + 1
    /\ \E pumpio \in IF matching(io_instances, port) # { }
                      THEN matching(io_instances, port)
                      ELSE { IF created
                             THEN PumpIO(Cardinality(io_instances) + 1, port)
                             ELSE NoPumpIO } :
          IF pumpio = NoPumpIO
          THEN \* InvalidConfiguration: cannot connect to the pump on the port
               UNCHANGED << io_instances, pump_io, sess >>
          ELSE /\ io_instances' = io_instances \cup { pumpio }
               /\ IF diameter = None
                  THEN \* InvalidConfiguration: no syringe diameter
                       UNCHANGED << pump_io, sess >>
                  ELSE /\ pump_io' = [pump_io EXCEPT ![s] = pumpio]
                       /\ sess' = [sess EXCEPT ![s] =
                                      Elite11(address, diameter,
                                              ConfiguredSyringeVolume)]
    /\ UNCHANGED << dev, syringe, link, rx, wq, task >>

InitReg ==
    /\ io_instances = { }
    /\ pump_io = [s \in Sessions |-> NoPumpIO]
    /\ sess = [s \in Sessions |->
                 Elite11(None, ConfiguredDiameter, ConfiguredSyringeVolume)]
    /\ dev = [p \in Pumps |-> "IDLE"]
    /\ syringe = [p \in Pumps |-> ConfiguredDiameter]
    /\ link = TRUE
    /\ rx = << >>
    /\ wq = << >>
    /\ task = [t \in Tasks |-> IdleTask]
    /\ nops = 0

NextReg ==
    \E s \in Sessions, port \in Ports, address \in { None, 1, 2 },
       diameter \in { None, ConfiguredDiameter }, created \in BOOLEAN :
       from_config(s, port, address, diameter, created)

SpecReg == InitReg /\ [][NextReg]_vars

----------------------------------------------------------------------------
(* Properties *)

RunCodes == { "run", "rrun", "irun", "wrun" }

\* task t is inside a command/reply cycle: its command is submitted and not
\* all of its reply_lines + 2 lines are read
InFlight(t) == task[t].cyc \in { "queued", "reading" }

\* task t has ended a cycle of write_and_read_reply with all its lines read
Processed(t) ==
    /\ task[t].pc \in { "done", "failed" }
    /\ task[t].n = task[t].cmd.reply_lines + 2

\* C1: on the channel shared by the sessions, at most one command/reply
\* cycle is in flight at any time.
C1_OneCycleInFlight ==
    Cardinality({ t \in Tasks : InFlight(t) }) <= 1

\* C2: every reply line kept for a caller was sent by the device in reply to
\* that caller's own command (no caller reads the lines of another).
C2_OwnReplyLines ==
    \A t \in Tasks : \A i \in DOMAIN task[t].resp : task[t].resp[i].by = t

RunsWritten(t) ==
    Cardinality({ i \in DOMAIN task[t].sent : task[t].sent[i] \in RunCodes })

\* C4: a run, rrun, irun or wrun command on the wire comes from a session
\* whose initialize() has completed.
C4_InitializeFirst ==
    \A t \in Tasks : RunsWritten(t) > 0 => sess[task[t].s].initialized

\* C5: run(), infuse_run() and withdraw_run() write no run-type command
\* before their status query has answered; when it reports INFUSING or
\* WITHDRAWING they return the warning and have written none; when it reports
\* another status they hand exactly one run-type command to the writer.
C5_FailFast ==
    \A t \in Tasks :
       task[t].op \in { "run", "infuse_run", "withdraw_run" }
          => /\ task[t].prompt = "" => RunsWritten(t) = 0
             /\ task[t].prompt \in Moving
                   => /\ task[t].pc = "done"
                      /\ task[t].out = Ok("Cannot start pump: already moving!")
                      /\ task[t].sent = << " " >>
             /\ task[t].prompt # "" /\ task[t].prompt \notin Moving
                   => /\ task[t].step = "start"
                      /\ task[t].cmd.command_string
                            = RunTemplate[task[t].op].command_string
                      /\ RunsWritten(t) <= 1
                      /\ task[t].cyc = "queued" => RunsWritten(t) = 0
                      /\ task[t].cyc \in { "reading", "complete" }
                            => task[t].sent = << " ", task[t].cmd.command_string >>
                      /\ task[t].pc = "done"
                            => task[t].sent = << " ", task[t].cmd.command_string >>

\* withdraw_run() has found the pump infusing and returned
C5_AlreadyMoving ==
    /\ task[1].op = "withdraw_run" /\ task[1].prompt = "INFUSING"
    /\ task[1].pc = "done" /\ task[1].out.ok

\* C6: withdraw_run() of a session whose withdraw flag is off fails with the
\* DeviceError of ensure_withdraw_is_enabled, has written nothing, and leaves
\* the sessions, the pumps, the input buffer and the write queue as they were.
C6_NoWireTraffic ==
    [][ \A t \in Tasks :
           ( /\ nops' = nops + 1
             /\ task'[t].op = "withdraw_run"
             /\ \A u \in Tasks \ { t } : task'[u] = task[u]
             /\ ~sess[task'[t].s].withdraw_enabled )
           => /\ task'[t].pc = "failed"
              /\ task'[t].out = Raise("DeviceError", "infuse-only pump")
              /\ task'[t].sent = << >>
              /\ task'[t].cyc = "none"
              /\ UNCHANGED << sess, dev, link, rx, wq >> ]_vars

\* withdraw_run() has failed on a session that initialize() found infuse-only
C6_InfuseOnlyRefused ==
    /\ task[1].op = "withdraw_run" /\ task[1].pc = "failed"
    /\ task[1].out.msg = "infuse-only pump"
    /\ sess[task[1].s].initialized /\ ~sess[task[1].s].withdraw_enabled

\* C7: stop() of a session that has an address, initialized or not and
\* whatever the pump is doing, hands the stop command to the writer as its
\* first and only command; it fails before the write only if the write itself
\* fails; once the pump has taken the command it is not INFUSING or WITHDRAWING.
C7_StopAlwaysLegal ==
    \A t \in Tasks :
       task[t].op = "stop" /\ sess[task[t].s].address # None
          => /\ task[t].step = "stop"
             /\ task[t].cmd.command_string = STOP.command_string
             /\ task[t].sent \in { << >>, << STOP.command_string >> }
             /\ task[t].pc = "failed" /\ task[t].sent = << >>
                   => task[t].out = Raise("InvalidConfiguration", "write")
             /\ task[t].sent # << >> /\ sess[task[t].s].address \in Pumps
                   => dev[sess[task[t].s].address] \notin Moving

\* stop() of a session that was never initialized, its command submitted
\* while the pump is infusing
C7_StopWhileMoving ==
    /\ task[1].op = "stop" /\ task[1].cyc = "queued"
    /\ ~sess[task[1].s].initialized
    /\ sess[task[1].s].address \in Pumps
    /\ dev[sess[task[1].s].address] = "INFUSING"

\* the lines task t has retained, as text
Retained(t) == Texts(task[t].resp)

\* the line carries the STALLED status
CarriesStalled(line) ==
    parse_response_line(line).ok /\ parse_response_line(line).val[2] = "STALLED"

\* every retained line of task t parses and carries the target address
FromTarget(t) ==
    /\ parse_response(Retained(t)).ok
    /\ \A i \in DOMAIN Retained(t) :
          parse_response(Retained(t)).val[1][i] = task[t].cmd.target_pump_address

StallFailure == Raise("DeviceError", "Pump stalled")

\* C8 as stated: a cycle in which any retained line carries the STALLED
\* status fails with the stall failure.
C8_StallAlwaysFirst ==
    \A t \in Tasks :
       Processed(t) /\ (\E i \in DOMAIN Retained(t) : CarriesStalled(Retained(t)[i]))
          => task[t].out = StallFailure

\* C8, amended: a cycle whose retained lines all parse and carry the target
\* address, one of them with the STALLED status, fails with the stall
\* failure, whatever error marker the last line contains.
C8_StallBeforeClassification ==
    \A t \in Tasks :
       ( /\ Processed(t)
         /\ FromTarget(t)
         /\ \E i \in DOMAIN Retained(t) : CarriesStalled(Retained(t)[i]) )
          => task[t].out = StallFailure

\* a reply from the target with a stalled line, and a last line that
\* check_for_errors rejects, has been processed
C8_StalledWithMarker ==
    \E t \in Tasks :
       /\ Processed(t)
       /\ FromTarget(t)
       /\ \E i \in DOMAIN Retained(t) : CarriesStalled(Retained(t)[i])
       /\ ~check_for_errors(Retained(t)[Len(Retained(t))], task[t].cmd).ok

\* C9: a cycle whose retained lines all parse, one of them with an address
\* other than the target of the command, fails with the AssertionError of the
\* address check; a cycle that returns has parsed every retained line and
\* found the target address in each.
C9_AddressMismatch ==
    \A t \in Tasks :
       Processed(t)
          => /\ ( /\ Retained(t) # << >>
                  /\ parse_response(Retained(t)).ok
                  /\ ~FromTarget(t) )
                   => task[t].out = Raise("AssertionError", "address")
             /\ task[t].out.ok => Retained(t) # << >> /\ FromTarget(t)

\* a reply of two well-formed lines, the first from the target and the second
\* from another address, has been processed
C9_SecondLineForeign ==
    \E t \in Tasks :
       /\ Processed(t)
       /\ Len(Retained(t)) = 2
       /\ parse_response(Retained(t)).ok
       /\ parse_response(Retained(t)).val[1][1] = task[t].cmd.target_pump_address
       /\ parse_response(Retained(t)).val[1][2] # task[t].cmd.target_pump_address

NoResponse == Raise("InvalidConfiguration", "No response received from pump")

\* C10: a cycle whose lines after the first are all empty once stripped
\* (empty lines, timeouts) fails with the InvalidConfiguration "No response
\* received from pump", whatever the first line holds.
C10_NoResponse ==
    \A t \in Tasks :
       Processed(t) /\ (\A i \in 2..Len(task[t].raw) : strip(task[t].raw[i]) = << >>)
          => task[t].out = NoResponse

\* a reply whose first line holds text and whose other lines are empty has
\* been processed
C10_OnlyFirstLine ==
    \E t \in Tasks :
       /\ Processed(t)
       /\ Len(task[t].raw) = 3
       /\ strip(task[t].raw[1]) # << >>
       /\ \A i \in 2..3 : task[t].raw[i] # << >> /\ strip(task[t].raw[i]) = << >>

\* C11: an operation of one command writes that command at most once: a
\* cycle that fails (no response, write or read failure, or any other
\* failure) ends the operation with that failure, nothing of it waits to be
\* written again, and a cycle without a retained line ends with NoResponse.
C11_NoResend ==
    \A t \in Tasks :
       /\ Len(task[t].sent) <= 1
       /\ task[t].pc = "failed"
             => task[t].cyc = "none" /\ t \notin Range(wq) /\ ~task[t].out.ok
       /\ Processed(t) /\ Retained(t) = << >>
             => task[t].pc = "failed" /\ task[t].out = NoResponse

\* a cycle has ended with NoResponse after its one write
C11_NoResponseSurfaced ==
    \E t \in Tasks :
       /\ task[t].pc = "failed" /\ task[t].out = NoResponse
       /\ Len(task[t].sent) = 1 /\ wq = << >>

\* a call of send_command_and_read_reply that task t has made
Sent(t) == task[t].op = "send_command_and_read_reply" /\ task[t].pc # "idle"

\* the template of the command requires an argument and the argument is
\* empty, or it does not and the argument is not empty
Mismatch(command) ==
    \/ command.requires_argument /\ command.command_argument = << >>
    \/ ~command.requires_argument /\ command.command_argument # << >>

ArgumentMismatch ==
    { Raise("DeviceError", "without an argument"),
      Raise("DeviceError", "Cannot provide an argument") }

\* C12: to_pump fails with the argument mismatch failure exactly when the
\* template requires an argument and the argument is empty, or the template
\* requires none and the argument is not empty; in every other case the
\* command is built with the address and the argument, and nothing of a
\* mismatching command is ever written.
C12_ArgumentMismatch ==
    \A t \in Tasks :
       Sent(t) =>
          /\ Mismatch(task[t].cmd)
                <=> task[t].pc = "failed" /\ task[t].out \in ArgumentMismatch
          /\ Mismatch(task[t].cmd)
                => /\ task[t].sent = << >> /\ task[t].wire = << >>
                   /\ t \notin Range(wq)
          /\ to_pump(task[t].cmd, sess[task[t].s].address,
                     task[t].cmd.command_argument).ok
                <=> ~Mismatch(task[t].cmd)
          /\ task[t].sent # << >>
                => task[t].cmd.target_pump_address = sess[task[t].s].address

\* an argument given to a template that takes none has failed the call
\* before any write
C12_ArgumentRefused ==
    \E t \in Tasks :
       /\ Sent(t) /\ ~task[t].cmd.requires_argument
       /\ task[t].cmd.command_argument # << >>
       /\ task[t].out = Raise("DeviceError", "Cannot provide an argument")
       /\ task[t].wire = << >>

\* C13: a command whose argument matches its template and whose address is
\* in [0,99) goes on the wire as the address zero-padded to two digits, the
\* code, a space, the argument and CRLF.
C13_ZeroPaddedLine ==
    \A t \in Tasks :
       Sent(t) /\ task[t].cyc = "reading"
          => task[t].wire = TwoDigits(task[t].cmd.target_pump_address)
                              \o << task[t].cmd.command_string, " " >>
                              \o task[t].cmd.command_argument
                              \o << "\r", "\n" >>

InvalidAddress == Raise("AssertionError", "address")

\* C14: a command for an address outside [0,99) fails in compile with the
\* invalid address failure, and since compile precedes the write, nothing of
\* it is written; whatever is written carries an address of [0,99).
C14_InvalidAddress ==
    \A t \in Tasks :
       Sent(t) =>
          LET address == sess[task[t].s].address
              inside == 0 <= address /\ address < 99
          IN  /\ address # None /\ ~inside /\ ~Mismatch(task[t].cmd)
                    => /\ task[t].pc = "failed" /\ task[t].out = InvalidAddress
                       /\ task[t].sent = << >> /\ task[t].wire = << >>
                       /\ t \notin Range(wq)
              /\ task[t].sent # << >> \/ t \in Range(wq)
                    => address # None /\ inside

\* address 99 has failed the call with the invalid address failure
C14_Address99Refused ==
    \E t \in Tasks :
       /\ Sent(t) /\ sess[task[t].s].address = 99
       /\ task[t].out = InvalidAddress /\ task[t].wire = << >>

\* the sessions that from_config has returned
Acquired == { s \in Sessions : pump_io[s] # NoPumpIO }

\* C15: after any sequence of from_config calls, sessions made for the same
\* port are attached to the identical PumpIO and sessions made for different
\* ports to distinct ones; the registry holds at most one PumpIO for a port,
\* holds the PumpIO of every session, and never loses one.
C15_OneChannelPerPort ==
    /\ [](/\ \A a, b \in io_instances : a.port = b.port => a = b
          /\ \A a, b \in io_instances : a.id = b.id => a = b
          /\ \A s \in Acquired : pump_io[s] \in io_instances
          /\ \A s1, s2 \in Acquired :
                pump_io[s1].port = pump_io[s2].port
                   <=> pump_io[s1].id = pump_io[s2].id)
    /\ [][io_instances \subseteq io_instances']_vars

\* two sessions of different addresses share the PumpIO of one port while
\* the registry also holds the PumpIO of another port
C15_DaisyChain ==
    /\ Acquired = Sessions
    /\ pump_io[1] = pump_io[2]
    /\ sess[1].address # sess[2].address
    /\ Cardinality(io_instances) >= 2

\* a call of set_infusion_rate in task t has the reply to its limits query
Bounded(t) == task[t].op = "set_infusion_rate" /\ task[t].limits # << >>

\* the limits the queried pump has reported, lower and upper, in nl/min
QueriedLimits(t) ==
    IF sess[task[t].s].address \in InfuseOnlyPumps
    THEN << MicroliterPerMinute, 100 * MilliliterPerMinute >>
    ELSE << 10 * NanoliterPerMinute, 50 * MilliliterPerMinute >>

\* C16: the rate that bound_rate_to_pump_limits returns is the requested rate
\* clamped into the limits just queried: the request itself when it is within
\* them, the lower limit when below, the upper limit when above (200 ml/min
\* with limits of 0.001 and 100 ml/min gives 100 ml/min); a clamp is reported
\* by a warning and by nothing else, the call does not fail because of the
\* request, and the clamped rate is the one sent to the pump.
C16_ClampedIntoLimits ==
    \A t \in Tasks :
       Bounded(t) =>
          LET requested == ensure_quantity(task[t].rate)
              lower == QueriedLimits(t)[1]
              upper == QueriedLimits(t)[2]
          IN  /\ requested < lower => task[t].set_rate = lower
              /\ requested > upper => task[t].set_rate = upper
              /\ lower <= requested /\ requested <= upper
                    => task[t].set_rate = requested
              /\ task[t].warned # << >>
                    <=> requested < lower \/ requested > upper
              /\ task[t].pc = "failed" => ~link
              /\ task[t].step = "rate"
                    => task[t].cmd.command_argument
                          = format_rate(task[t].set_rate) \o TxtMeterPerMinute
              /\ task[t].rate.magnitude = 200 /\ upper = 100 * MilliliterPerMinute
                    => /\ task[t].set_rate = 100 * MilliliterPerMinute
                       /\ task[t].step = "rate"
                             => task[t].cmd.command_argument
                                   = << "1", "0", "0", ".", "0", "0", "0", "0",
                                        "0", "0", "0", "0", "0", "0" >>
                                     \o TxtMeterPerMinute

\* a request of 200 ml/min with limits of 0.001 and 100 ml/min was set as
\* 100 ml/min with a warning, and the operation has completed
C16_ClampedToUpper ==
    \E t \in Tasks :
       /\ Bounded(t) /\ task[t].rate.magnitude = 200
       /\ QueriedLimits(t)[2] = 100 * MilliliterPerMinute
       /\ task[t].set_rate = 100 * MilliliterPerMinute
       /\ task[t].warned = << "higher" >>
       /\ task[t].pc = "done" /\ Len(task[t].sent) = 2

InvalidCommand == Raise("DeviceError", "invalid")

UnsupportedCommand == Raise("DeviceError", "unknown")

InvalidArgument == Raise("DeviceError", "invalid argument")

ArgumentOutOfRange == Raise("DeviceError", "argument out of range")

\* the last retained line of the cycle of task t
LastLine(t) == Retained(t)[Len(Retained(t))]

\* the cycle of task t has been processed with retained lines that all
\* parse, carry the target address and report no stall
Classified(t) ==
    /\ Processed(t) /\ Retained(t) # << >>
    /\ FromTarget(t)
    /\ \A i \in DOMAIN Retained(t) : ~CarriesStalled(Retained(t)[i])

\* C17 as stated: a cycle whose last retained line contains "Out of range"
\* fails with the out of range failure, whatever the other lines hold.
C17_OutOfRangeAlways ==
    \A t \in Tasks :
       Processed(t) /\ Retained(t) # << >> /\ contains(LastLine(t), TxtOutOfRange)
          => task[t].pc = "failed" /\ task[t].out = ArgumentOutOfRange

\* C17: a cycle whose last retained line contains "Out of range" fails with
\* the out of range failure whatever the bodies of the other lines hold,
\* provided that every retained line parses, carries the target address and
\* reports no stall, and that the last line holds none of the markers
\* classified before it.
C17_OutOfRangeLast ==
    \A t \in Tasks :
       /\ Classified(t)
       /\ contains(LastLine(t), TxtOutOfRange)
       /\ ~contains(LastLine(t), TxtCommandError)
       /\ ~contains(LastLine(t), TxtUnknownCommand)
       /\ ~contains(LastLine(t), TxtArgumentError)
       => task[t].pc = "failed" /\ task[t].out = ArgumentOutOfRange

\* a cycle has failed with the out of range failure of its last line while
\* the line before held the marker of a command error
C17_OtherMarkerIgnored ==
    \E t \in Tasks :
       /\ Classified(t) /\ Len(Retained(t)) = 2
       /\ contains(Retained(t)[1], TxtCommandError)
       /\ contains(LastLine(t), TxtOutOfRange)
       /\ task[t].out = ArgumentOutOfRange

\* C18: the classification of the last retained line gives each marker its
\* own failure, the first of the markers in the order command error, unknown
\* command, argument error, out of range; the cycle succeeds exactly when
\* the line holds none of the four; a rejected command is reported to the
\* caller and not sent again.
C18_MarkerToFailure ==
    \A t \in Tasks :
       Classified(t) =>
          LET command_error == contains(LastLine(t), TxtCommandError)
              unknown_command == contains(LastLine(t), TxtUnknownCommand)
              argument_error == contains(LastLine(t), TxtArgumentError)
              out_of_range == contains(LastLine(t), TxtOutOfRange)
          IN  /\ command_error => task[t].out = InvalidCommand
              /\ ~command_error /\ unknown_command
                    => task[t].out = UnsupportedCommand
              /\ ~command_error /\ ~unknown_command /\ argument_error
                    => task[t].out = InvalidArgument
              /\ ~command_error /\ ~unknown_command /\ ~argument_error
                    /\ out_of_range
                    => task[t].out = ArgumentOutOfRange
              /\ task[t].pc = "done"
                    <=> ~(command_error \/ unknown_command \/ argument_error
                          \/ out_of_range)
              /\ task[t].out.ok <=> task[t].pc = "done"
              /\ Len(task[t].sent) = 1 /\ t \notin Range(wq)
              /\ task[t].cyc = "none"

\* an unknown command has been reported to the caller after one write
C18_UnknownCommandReported ==
    \E t \in Tasks :
       /\ Classified(t) /\ contains(LastLine(t), TxtUnknownCommand)
       /\ task[t].pc = "failed" /\ task[t].out = UnsupportedCommand
       /\ Len(task[t].sent) = 1 /\ wq = << >>

\* C19: a line of at least three characters that starts with two digits and
\* a status character is decomposed into the address of the two digits, the
\* status of the third character and the rest after the prompt, the prompt
\* being two characters for TARGET_REACHED and one otherwise; "09>0.20 ml/min"
\* gives (9, INFUSING, "0.20 ml/min") and "05T*done" (5, TARGET_REACHED, "done").
C19_Decomposition ==
    /\ \A t \in Tasks : \A i \in DOMAIN Retained(t) :
          LET line == Retained(t)[i]
          IN  Len(line) >= 3 /\ IsDigit(line[1]) /\ IsDigit(line[2])
                 /\ (\E n \in PumpStatusNames : PumpStatusValue[n] = line[3])
              => /\ parse_response_line(line).ok
                 /\ parse_response_line(line).val[1]
                       = 10 * DigitVal(line[1]) + DigitVal(line[2])
                 /\ PumpStatusValue[parse_response_line(line).val[2]] = line[3]
                 /\ parse_response_line(line).val[3]
                       = SubSeq(line, IF line[3] = "T" THEN 5 ELSE 4, Len(line))
    /\ \A t \in Tasks :
          /\ LineInfusing \in Range(Retained(t))
                => parse_response_line(LineInfusing)
                     = Ok(<< 9, "INFUSING",
                             << "0", ".", "2", "0", " ", "m", "l", "/", "m", "i", "n" >> >>)
          /\ LineTargetReached \in Range(Retained(t))
                => parse_response_line(LineTargetReached)
                     = Ok(<< 5, "TARGET_REACHED", << "d", "o", "n", "e" >> >>)
          /\ Processed(t) /\ Retained(t) = << LineInfusing, LineTargetReached >>
                => task[t].out = Raise("AssertionError", "address")

\* both lines have been read in one cycle and parsed: the cycle went on to
\* the comparison of their addresses
C19_BothLinesParsed ==
    \E t \in Tasks :
       /\ Processed(t) /\ Retained(t) = << LineInfusing, LineTargetReached >>
       /\ task[t].out = Raise("AssertionError", "address")

\* the line holds a character that is not white space
NonBlank(line) == \E i \in DOMAIN line : line[i] \notin Whitespace

\* the line without the white space before its first and after its last
\* other character
Trimmed(line) ==
    LET at == { i \in DOMAIN line : line[i] \notin Whitespace }
    IN  SubSeq(line, CHOOSE i \in at : \A j \in at : i <= j,
                     CHOOSE i \in at : \A j \in at : j <= i)

\* the lines from the i-th on that are not blank, trimmed, in their order
RECURSIVE TrimmedFrom(_, _)
TrimmedFrom(lines, i) ==
    IF i > Len(lines) THEN << >>
    ELSE (IF NonBlank(lines[i]) THEN << Trimmed(lines[i]) >> ELSE << >>)
         \o TrimmedFrom(lines, i + 1)

StatusCharacters == { ":", ">", "<", "T", "*" }

\* the line has fewer than three characters
TooShort(line) == Len(line) < 3

\* the third character of the line is not the character of a status
NoStatus(line) == Len(line) >= 3 /\ line[3] \notin StatusCharacters

MalformedReply == Raise("AssertionError", "len(line) >= 3")

UnknownStatus == Raise("ValueError", "not a valid PumpStatus")

\* C21: parse_response_line gives no value for an ill-formed line: a line of
\* fewer than three characters fails with the malformed reply failure, a line
\* whose third character is no status character fails with a ValueError (that
\* of the unknown status when the address before it reads as a number); a
\* cycle that retained such a line fails with the failure of its first line
\* that does not parse, and nothing is returned to the caller.
C21_IllFormedLine ==
    \A t \in Tasks :
       /\ \A i \in DOMAIN Retained(t) :
             LET line == Retained(t)[i]
             IN  /\ TooShort(line) => parse_response_line(line) = MalformedReply
                 /\ NoStatus(line)
                       => /\ ~parse_response_line(line).ok
                          /\ parse_response_line(line).exc = "ValueError"
                 /\ NoStatus(line) /\ IsDigit(line[1]) /\ IsDigit(line[2])
                       => parse_response_line(line) = UnknownStatus
       /\ Processed(t)
          /\ (\E i \in DOMAIN Retained(t) :
                 TooShort(Retained(t)[i]) \/ NoStatus(Retained(t)[i]))
          => /\ task[t].pc = "failed" /\ ~task[t].out.ok
             /\ task[t].out.val = << >>
             /\ \E i \in DOMAIN Retained(t) :
                   /\ task[t].out = parse_response_line(Retained(t)[i])
                   /\ \A j \in 1..(i - 1) :
                         parse_response_line(Retained(t)[j]).ok

\* a cycle of two retained lines has failed with the unknown status of its
\* second line
C21_UnknownStatusSeen ==
    \E t \in Tasks :
       /\ Processed(t) /\ Len(Retained(t)) = 2
       /\ parse_response_line(Retained(t)[1]).ok /\ NoStatus(Retained(t)[2])
       /\ task[t].pc = "failed" /\ task[t].out = UnknownStatus
       /\ Len(task[t].sent) = 1

\* the steps of a cycle with k line reads
CycleSteps(k) == << "discard", "write" >> \o [i \in 1..k |-> "read"]

\* C22: every cycle is one discard of the unread input, then one write of
\* the compiled command, then the line reads, expectedReplyLines + 2 of
\* them when the cycle gets to its end: the discard comes before the write
\* (and leaves no unread input), and no line is read before the write.
C22_CycleOrder ==
    \A t \in Tasks :
       LET steps == task[t].log
           lines == task[t].cmd.reply_lines + 2
       IN  /\ \/ steps \in { << >>, << "discard" >> }
              \/ \E k \in 0..lines : steps = CycleSteps(k)
           /\ task[t].cyc = "queued" => steps = << "discard" >> /\ rx = << >>
           /\ task[t].cyc = "reading"
                 => steps = CycleSteps(task[t].n) /\ task[t].n < lines
           /\ task[t].cyc = "complete" => steps = CycleSteps(lines)
           /\ task[t].pc = "done" /\ steps # << >> => steps = CycleSteps(lines)
           /\ task[t].pc = "failed" /\ task[t].out.exc = "DeviceError"
                 /\ Len(steps) > 1
                 => steps = CycleSteps(lines)

\* the cycle of the metrics command has made its 22 line reads
C22_MetricsCycleRead ==
    \E t \in Tasks :
       /\ task[t].cyc = "complete" /\ task[t].cmd.command_string = "metrics"
       /\ task[t].log = CycleSteps(22)

\* the commands of initialize in their order, ending with that clear command
InitializeCommands(clear) ==
    << "diameter", "svolume", "metrics", "ctvolume", clear >>

\* s is the start of the sequence q
IsPrefix(s, q) == Len(s) <= Len(q) /\ s = SubSeq(q, 1, Len(s))

\* C23: initialize detects the address first and only in a session that has
\* none, then writes set diameter, set syringe volume, the metrics query and
\* the clearing of the counters, in this order; the diameter and the volume
\* written are those configured; the clear command is the one that fits the
\* withdraw flag the metrics reply has just set; and an initialize that
\* completes has written them all and had each accepted.
C23_InitializeSequence ==
    \A t \in Tasks :
       task[t].op = "initialize" =>
          LET self == sess[task[t].s]
              clear == IF self.withdraw_enabled THEN "cvolume" ELSE "civolume"
          IN  /\ task[t].cyc = "sync"
                    => self.address = None /\ task[t].sent = << >>
              /\ task[t].sent # << >> => self.address # None
              /\ \/ IsPrefix(task[t].sent, InitializeCommands("cvolume"))
                 \/ IsPrefix(task[t].sent, InitializeCommands("civolume"))
              /\ Len(task[t].sent) = 5
                    => /\ task[t].sent = InitializeCommands(clear)
                       /\ self.withdraw_enabled
                             <=> self.address \notin InfuseOnlyPumps
              /\ task[t].pc = "done"
                    => /\ task[t].sent = InitializeCommands(clear)
                       /\ task[t].out.ok /\ self.initialized
              /\ task[t].cyc = "reading" /\ task[t].cmd.command_string = "diameter"
                    => task[t].cmd.command_argument
                          = str(self.diameter) \o << ".", "0", "0", "0", "0" >>
                            \o TxtMillimeter
              /\ task[t].cyc = "reading" /\ task[t].cmd.command_string = "svolume"
                    => task[t].cmd.command_argument
                          = str(self.syringe_volume) \o << "." >> \o Zeros(15)
                            \o << " ", "m" >>

\* C24: the address is detected only in a session constructed without one:
\* for a session constructed with an address, 0 included, initialize reads no
\* unsolicited prompt (nothing is written or read outside the cycles) and
\* every command the session writes carries that address.
C24_AutodetectOnlyWithoutAddress ==
    \A t \in Tasks :
       LET self == sess[task[t].s]
       IN  self.name # None
              => /\ task[t].cyc # "sync"
                 /\ task[t].cyc \in { "queued", "reading", "complete" }
                       => task[t].cmd.target_pump_address = self.name
                 /\ task[t].wire # << >>
                       => WireAddress(task[t].wire) = self.name

SetRateOps == { "set_infusion_rate", "set_withdrawing_rate" }

SetRateCode == [set_infusion_rate |-> "irate", set_withdrawing_rate |-> "wrate"]

\* the limits of pump p with the syringe it has now, lower and upper, in nl/min
DeviceLimits(p) ==
    << flowchem_ureg(split(RateLimits(p), TxtTo)[1]).val,
       flowchem_ureg(split(RateLimits(p), TxtTo)[2]).val >>

\* rate clamped into the limits
Clamped(rate, limits) ==
    IF rate < limits[1] THEN limits[1]
    ELSE IF rate > limits[2] THEN limits[2] ELSE rate

\* the text of a rate as the operation writes it
RateText(op, rate) ==
    (IF op = "set_infusion_rate" THEN format_rate(rate) ELSE format_repr(rate))
    \o TxtMeterPerMinute

\* task t is the last to have written, and what it wrote sets a rate
WroteSetRate(t) ==
    /\ task[t].wire # << >>
    /\ WireCode(task[t].wire) \in { "irate", "wrate" }
    /\ WireHasArgument(task[t].wire)

\* C25: the rate limits are asked for at every use and never kept: a command
\* that sets the infusion or the withdraw rate is written by an operation
\* that has asked for the rate limits just before, as its only other
\* command, and its rate is the request clamped into the limits of that
\* reply, which are the limits the pump has with its syringe of now, not
\* those an earlier operation has got.
C25_LimitsRefreshed ==
    \A t \in Tasks :
       WroteSetRate(t) =>
          LET p == sess[task[t].s].address
          IN  /\ task[t].op \in SetRateOps
              /\ task[t].sent = << "irate lim", SetRateCode[task[t].op] >>
              /\ task[t].limits = RateLimits(p)
              /\ WireArgument(task[t].wire)
                    = RateText(task[t].op,
                               Clamped(ensure_quantity(task[t].rate), DeviceLimits(p)))

\* a rate of 200 ml/min was set as the 25 ml/min of the syringe that an
\* earlier operation has put in, not as the 50 ml/min of the first syringe
C25_LimitsOfNewSyringe ==
    \E t \in Tasks :
       /\ WroteSetRate(t) /\ task[t].pc = "done"
       /\ task[t].rate.magnitude = 200
       /\ sess[task[t].s].address = 1
       /\ syringe[1] = 5
       /\ task[t].set_rate = 25 * MilliliterPerMinute

\* C27: the pump always gets a rate within its limits, also when a caller
\* sets a rate while another changes the syringe of the same pump: whenever
\* a command that sets a rate is written, its rate lies within the limits
\* the pump has at that moment.
C27_RateWithinLimitsAtWrite ==
    [][\A t \in Tasks :
          /\ task[t].op \in SetRateOps /\ task[t].step = "rate"
          /\ task[t].cyc = "queued" /\ task'[t].cyc = "reading"
          => LET p == sess[task[t].s].address
             IN  /\ WireArgument(task'[t].wire)
                       = RateText(task[t].op, task[t].set_rate)
                 /\ DeviceLimits(p)[1] <= task[t].set_rate
                 /\ task[t].set_rate <= DeviceLimits(p)[2]]_vars

\* C28: the check for a moving pump and the start command of a run-type
\* operation are one step for the other callers: of two concurrent run-type
\* operations on one pump at most one writes its run-type command, so that
\* no run-type command is written while the pump is infusing or withdrawing.
C28_NoRunWhileMoving ==
    [][\A t \in Tasks :
          /\ task[t].op \in RunOps /\ task[t].step = "start"
          /\ task[t].cyc = "queued" /\ task'[t].cyc = "reading"
          /\ sess[task[t].s].address \in Pumps
          => dev[sess[task[t].s].address] \notin Moving]_vars

WithdrawCodes == { "wrun", "wrate", "wvolume", "cwvolume", "cvolume" }

\* the last capability query of the session has reported a direction with
\* withdraw
ReportedWithdraw(self) ==
    \E i \in DOMAIN self.pump_info :
       /\ startswith(self.pump_info[i], TxtDirection)
       /\ contains(self.pump_info[i], TxtWithdraw)

\* C29: a withdraw command (wrun, wrate with or without rate, wvolume,
\* cwvolume, cvolume) is on the wire only from a session whose withdraw flag
\* is on, and the flag is on only if the last completed capability query of
\* the session has reported a direction with withdraw; a session that has
\* not run initialize() writes none of them, and clear_volumes of an
\* infuse-only session writes civolume, never cvolume.
C29_WithdrawGated ==
    \A t \in Tasks :
       LET self == sess[task[t].s]
       IN  /\ task[t].wire # << >> /\ WireCode(task[t].wire) \in WithdrawCodes
              => self.withdraw_enabled
           /\ \A s \in Sessions :
                 sess[s].withdraw_enabled => ReportedWithdraw(sess[s])
           /\ self.pump_info = << >>
              => \A i \in DOMAIN task[t].sent : task[t].sent[i] \notin WithdrawCodes
           /\ task[t].op = "clear_volumes" /\ ~self.withdraw_enabled
              => /\ "cvolume" \notin Range(task[t].sent)
                 /\ Len(task[t].sent) = 2 => task[t].sent[2] = "civolume"

\* clear_volumes of a session that initialize() has found infuse-only has
\* written ctvolume and civolume
C29_InfuseOnlyCleared ==
    \E t \in Tasks :
       /\ task[t].op = "clear_volumes" /\ task[t].pc = "done"
       /\ sess[task[t].s].initialized /\ ~sess[task[t].s].withdraw_enabled
       /\ task[t].sent = << "ctvolume", "civolume" >>

\* task t is inside wait_until_idle
Waiting(t) == task[t].op = "wait_until_idle" /\ task[t].pc = "running"

\* what wait_until_idle does and when it returns
WaitPolls ==
    \A t \in Tasks :
       task[t].op = "wait_until_idle" =>
          /\ \A i \in DOMAIN task[t].sent :
                task[t].sent[i] = EMPTY_MESSAGE.command_string
          /\ task[t].wire # << >>
                => /\ WireCode(task[t].wire) = EMPTY_MESSAGE.command_string
                   /\ ~WireHasArgument(task[t].wire)
          /\ task[t].cyc = "sleeping" => task[t].prompt \in Moving
          /\ task[t].pc = "done"
                => /\ task[t].out.ok
                   /\ task[t].prompt \in { "IDLE", "TARGET_REACHED" }
                   /\ LastLine(t) # << >>
                   /\ get_status_reply(LastLine(t)).val = task[t].prompt
                   /\ dev[sess[task[t].s].address] \notin Moving
          /\ task[t].pc = "failed"
                => \/ ~link
                   \/ task[t].out = Raise("DeviceError", "Pump stalled")

\* C26: wait_until_idle polls the status: it writes status queries and
\* nothing else, it returns only after a status query has reported a status
\* that is neither INFUSING nor WITHDRAWING, it fails when a query reports
\* STALLED or gets no response, and with the executors and the event loop
\* doing their work it ends whenever the pumps stay, from some moment on,
\* out of INFUSING and WITHDRAWING.
C26_WaitUntilIdle ==
    /\ []WaitPolls
    /\ <>[](\A p \in Pumps : dev[p] \notin Moving)
          => (Waiting(1) ~> ~Waiting(1))

\* wait_until_idle has returned on a pump that was started and has reached
\* its target, the last status reported being that of the target reached
C26_WaitedForTarget ==
    \E t \in Tasks :
       /\ task[t].op = "wait_until_idle" /\ task[t].pc = "done"
       /\ task[t].prompt = "TARGET_REACHED"
       /\ dev[sess[task[t].s].address] = "TARGET_REACHED"

====
